---------------------------- MODULE Spec2Model ----------------------------
(***************************************************************************)
(* Model of the backtest core of Trading-Bot-v14:                          *)
(*   backend/backtest/portfolio.py            (Portfolio)                  *)
(*   backend/backtest/backtest_engine.py      (BacktestEngine)             *)
(*   backend/backtest/performance_metrics.py  (PerformanceMetrics)         *)
(*   backend/strategies/buy_and_hold.py, DCA_strategy.py, RSI_strategy.py  *)
(*   backend/data/data_manager.py             (DataManager)                *)
(*   backend/app.py                           (the run_backtest handler)   *)
(*                                                                         *)
(* Amounts (cash, quantities, prices, rates) are Python floats in the      *)
(* source; they are modelled as exact rationals <<numerator, denominator>> *)
(* in lowest terms with a positive denominator.  Timestamps are whole      *)
(* hours counted from hour 0 = 00:00 of the last day of a month, so hour   *)
(* 24 is 00:00 of the first day of the next month.                         *)
(*                                                                         *)
(* Specifications:                                                         *)
(*   Spec          - one BacktestEngine: __init__, set_strategy,           *)
(*                   run_backtest (stepped tick by tick), then the         *)
(*                   metrics of the calling layer.                         *)
(*   SpecTwoRuns   - a run, then a second engine given the same inputs.    *)
(*   SpecPortfolio - one Portfolio driven directly through its public      *)
(*                   methods set_market_data and execute_trade with        *)
(*                   arbitrary orders.                                     *)
(*   SpecStrategy  - one strategy object: set_params, generate_signals.    *)
(*   SpecData      - one DataManager file: get_historical_data.            *)
(*   SpecDataOverlap - the same, with a file of candles recorded early and *)
(*                   an exchange whose answers run past endTime.           *)
(*   SpecPaging    - one _fetch_from_binance call, request by request.     *)
(*   SpecConcurrent - two get_historical_data calls on the same file, run  *)
(*                   by two request threads.                               *)
(*                   run.py starts the server with threaded = True.        *)
(***************************************************************************)
EXTENDS Integers, Sequences, FiniteSets, TLC

VARIABLES
    mode,                \* "engine" | "portfolio" | "strategy" | "data" | "paging" |
                         \* "concurrent": the object driven
    \* ---- Portfolio fields (portfolio.py:17-37, 43-46)
    initial_capital,
    commission_rate,
    symbols,             \* the `paires` list given to the constructor
    cash,
    positions,           \* dict symbol -> quantity (a function on the held keys)
    benchmark_positions, \* dict symbol -> quantity
    trades,              \* list of executed trade dicts
    graph_data,          \* [timestamp, total_value, benchmark : lists]
    total_commission,
    market_data,         \* [attached, keys (dict order), data : symbol -> (ts -> close)]
    \* ---- BacktestEngine fields and the position of run_backtest
    strategy,            \* [name, params]; name "None" is self.strategy = None
    timeframe,           \* step of the grid, in hours
    signals_df,          \* the concatenated signal table (rows in order)
    ticks,               \* pd.date_range(start_ts, end_ts, freq = timeframe)
    tick_i,              \* index in ticks of the tick being processed
    to_process,          \* rows of the current tick not yet executed
    results,             \* <<>> or <<the returned results dict>>
    pc,                  \* position in run_backtest
    \* ---- the last call on the portfolio or the strategy: its argument and its
    \*      outcome
    ncalls,              \* number of execute_trade calls made so far
    last_trade,          \* <<>> or <<the order passed to the last execute_trade>>
    ret,                 \* <<>> or <<the dict the last execute_trade returned>>
    err,                 \* "none" or the exception the last call raised
    \* ---- the run of an earlier engine that was given the same inputs
    prior,               \* <<>> or <<[strategy, market_data, trades, graph_data,
                         \*            results, pc, err] of the earlier run>>
    \* ---- what the calling layer derives from the finished run (app.py:190-198)
    metrics,             \* <<>> or <<the metrics dict>>, the dict {} being <<>>
    \* ---- DataManager: the CSV file of one (symbol, timeframe) and the last call
    cache,               \* the candles of the file: timestamp -> close
    fetches,             \* the HTTP requests the last get_historical_data issued,
                         \* each [startTime, endTime, ok (answered or raised),
                         \* rows (the timestamps of the klines answered)]
    returned_df,         \* the candles the last get_historical_data returned
    remote,              \* the exchange: [honours_end: whether an answer stops at endTime]
    paging,              \* <<>> or the locals of one _fetch_from_binance call that
                         \* is stepped request by request
    calls                \* <<>> or, per concurrent get_historical_data call, its
                         \* position and its local frame df

vars == <<mode, initial_capital, commission_rate, symbols, cash, positions,
          benchmark_positions, trades, graph_data, total_commission, market_data,
          strategy, timeframe, signals_df, ticks, tick_i, to_process, results, pc,
          ncalls, last_trade, ret, err, prior, metrics, cache, fetches, returned_df,
          remote, paging, calls>>

portfolio_vars == <<initial_capital, commission_rate, symbols, cash, positions,
                    benchmark_positions, trades, graph_data, total_commission,
                    market_data>>

engine_vars == <<strategy, timeframe, signals_df, ticks, tick_i, to_process,
                 results, pc>>

call_vars == <<ncalls, last_trade, ret, err>>

data_vars == <<cache, fetches, returned_df, remote, paging, calls>>

\* an exchange that answers as Binance does, no stepped fetch, no concurrent call
DataAtRest ==
    /\ remote = [honours_end |-> TRUE]
    /\ paging = <<>>
    /\ calls = <<>>

-----------------------------------------------------------------------------
(* Bounds of the model *)

\* Largest tick index of a series: series have at most MaxTick + 1 candles.
MaxTick == 2

\* Number of execute_trade calls made on the directly driven Portfolio.
MaxCalls == 3

-----------------------------------------------------------------------------
(* Exact rational arithmetic standing for the float arithmetic of the source *)

Abs(n) == IF n < 0 THEN -n ELSE n

RECURSIVE GCD(_, _)
GCD(a, b) == IF b = 0 THEN a ELSE GCD(b, a % b)

\* n / d in lowest terms, d # 0
Frac(n, d) ==
    LET g == GCD(Abs(n), Abs(d))
        s == IF d < 0 THEN -1 ELSE 1
    IN  <<(s * n) \div g, (s * d) \div g>>

R(n) == <<n, 1>>

\* The operations cancel common factors before they multiply, which keeps the
\* intermediate integers small.
RAdd(x, y) ==
    LET g == GCD(x[2], y[2])
    IN  Frac(x[1] * (y[2] \div g) + y[1] * (x[2] \div g), (x[2] \div g) * y[2])
RNeg(x)    == <<-x[1], x[2]>>
RSub(x, y) == RAdd(x, RNeg(y))
RMul(x, y) ==
    LET a == Frac(x[1], y[2])
        b == Frac(y[1], x[2])
    IN  <<a[1] * b[1], a[2] * b[2]>>
RInv(x)    == IF x[1] < 0 THEN <<-x[2], -x[1]>> ELSE <<x[2], x[1]>>
RDiv(x, y) == RMul(x, RInv(y))
RLt(x, y)  ==
    LET g == GCD(x[2], y[2]) IN x[1] * (y[2] \div g) < y[1] * (x[2] \div g)
RLe(x, y)  ==
    LET g == GCD(x[2], y[2]) IN x[1] * (y[2] \div g) <= y[1] * (x[2] \div g)

\* Sum of f[k] over the finite set S of keys
RECURSIVE RSum(_, _)
RSum(f, S) ==
    IF S = {} THEN R(0)
    ELSE LET k == CHOOSE k \in S : TRUE
         IN  RAdd(f[k], RSum(f, S \ {k}))

\* Sum of the rationals of a sequence
RECURSIVE RSumSeq(_)
RSumSeq(s) == IF s = <<>> THEN R(0) ELSE RAdd(Head(s), RSumSeq(Tail(s)))

-----------------------------------------------------------------------------
(* Inputs *)

Symbols == {"BTCUSDC", "ETHUSDC"}

\* initial_capital and commission_rate given to the constructors
Capitals == {R(1000), R(6)}
Rates    == {R(0), <<1, 4>>}

\* timeframe given to BacktestEngine.__init__, in hours ('12h', '1d')
Timeframes == {12, 24}

\* Close price of price path p at tick index k
ClosePath(p, k) ==
    CASE p = "up"   -> R(<<100, 110, 121>>[(k % 3) + 1])
      [] p = "down" -> R(<<8, 4, 2>>[(k % 3) + 1])
      [] p = "flat" -> R(50)

ClosePaths == {"up", "down", "flat"}

\* A series: a candle (its close) at hour tf * k for every tick index k in cov
Series(p, cov, tf) == [ts \in {tf * k : k \in cov} |-> ClosePath(p, ts \div tf)]

\* Tick coverages of a series: any non-empty set of tick indices
Coverages == (SUBSET (0 .. MaxTick)) \ {{}}

\* Market data mappings passed to set_market_data / run_backtest: the symbols
\* in dict order, each with a series on the grid of step tf.
MarketData(keys, path, cov, tf) ==
    [attached |-> TRUE,
     keys     |-> keys,
     data     |-> [s \in {keys[i] : i \in 1 .. Len(keys)} |-> Series(path[s], cov[s], tf)]]

NoMarketData == [attached |-> FALSE, keys |-> <<>>, data |-> <<>>]

-----------------------------------------------------------------------------
(* Portfolio (portfolio.py) *)

\* The minimum notional / cash of an order (the literal 5 of _buy_market and
\* _sell_market)
TradeFloor == 5

\* Faulty variant of NewPortfolio: the trade list is shared with the portfolio
\* that exists already
NewPortfolioSharedLog(capital, rate, paires) ==
    [initial_capital |-> capital, commission_rate |-> rate, symbols |-> paires,
     cash |-> capital, positions |-> <<>>, benchmark_positions |-> <<>>,
     trades |-> trades,
     graph_data |-> [timestamp |-> <<>>, total_value |-> <<>>, benchmark |-> <<>>],
     total_commission |-> R(0), market_data |-> NoMarketData]

\* Portfolio.__init__ as the fields of the object it constructs
NewPortfolio(capital, rate, paires) ==
    [initial_capital |-> capital, commission_rate |-> rate, symbols |-> paires,
     cash |-> capital, positions |-> <<>>, benchmark_positions |-> <<>>,
     trades |-> <<>>,
     graph_data |-> [timestamp |-> <<>>, total_value |-> <<>>, benchmark |-> <<>>],
     total_commission |-> R(0), market_data |-> NoMarketData]

\* Portfolio.__init__
PortfolioInit(capital, rate, paires) ==
    /\ initial_capital = capital
    /\ commission_rate = rate
    /\ symbols = paires
    /\ cash = capital
    /\ positions = <<>>
    /\ benchmark_positions = <<>>
    /\ trades = <<>>
    /\ graph_data = [timestamp |-> <<>>, total_value |-> <<>>, benchmark |-> <<>>]
    /\ total_commission = R(0)
    /\ market_data = NoMarketData

\* self.market_data[symbol].loc[timestamp]['close'] succeeds
HasCandle(md, symbol, timestamp) ==
    /\ md.attached
    /\ symbol \in DOMAIN md.data
    /\ timestamp \in DOMAIN md.data[symbol]

\* the exception the lookup raises when it does not succeed
LookupError(md) == IF md.attached THEN "KeyError" ELSE "AttributeError"

Close(md, symbol, timestamp) == md.data[symbol][timestamp]

FirstTs(series) == CHOOSE t \in DOMAIN series : \A u \in DOMAIN series : t <= u
LastTs(series)  == CHOOSE t \in DOMAIN series : \A u \in DOMAIN series : u <= t

\* Portfolio.set_market_data: the benchmark buys initial_capital / len(symbols)
\* of every symbol at its first close
BenchmarkPositions(md, capital, paires) ==
    [s \in DOMAIN md.data |->
        RDiv(RDiv(capital, md.data[s][FirstTs(md.data[s])]), R(Len(paires)))]

\* Faulty variant of TotalUsdValue: the positions are left out of the value
TotalUsdValueCashOnly(md, c, pos, timestamp) ==
    IF \A s \in DOMAIN pos : HasCandle(md, s, timestamp)
    THEN <<"ok", c>>
    ELSE <<"raise", LookupError(md)>>

\* Portfolio._get_total_usd_value: <<"ok", value>> or <<"raise", exception>>
TotalUsdValue(md, c, pos, timestamp) ==
    IF \A s \in DOMAIN pos : HasCandle(md, s, timestamp)
    THEN <<"ok", RAdd(c, RSum([s \in DOMAIN pos |-> RMul(pos[s], Close(md, s, timestamp))],
                              DOMAIN pos))>>
    ELSE <<"raise", LookupError(md)>>

\* Faulty variant of BenchmarkValue: a symbol with no candle at the timestamp is
\* left out of the sum
BenchmarkValueSkipping(md, bpos, timestamp) ==
    LET priced == {s \in DOMAIN bpos : HasCandle(md, s, timestamp)} IN
    <<"ok", RSum([s \in priced |-> RMul(bpos[s], Close(md, s, timestamp))], priced)>>

\* Portfolio._get_benchmark_value
BenchmarkValue(md, bpos, timestamp) ==
    IF \A s \in DOMAIN bpos : HasCandle(md, s, timestamp)
    THEN <<"ok", RSum([s \in DOMAIN bpos |-> RMul(bpos[s], Close(md, s, timestamp))],
                      DOMAIN bpos)>>
    ELSE <<"raise", LookupError(md)>>

\* The part of the portfolio an order can change, and the outcome of the call
NoChange(returned, exception) ==
    [cash |-> cash, positions |-> positions, total_commission |-> total_commission,
     ret |-> returned, err |-> exception]

\* positions with positions[symbol] set to q (the key is added when missing)
SetPosition(pos, symbol, q) ==
    [s \in DOMAIN pos \cup {symbol} |-> IF s = symbol THEN q ELSE pos[s]]

Held(pos, symbol) == IF symbol \in DOMAIN pos THEN pos[symbol] ELSE R(0)

\* usd_value of a buy order (portfolio.py:96-101)
BuyUsdValue(trade) ==
    IF "portion" \in DOMAIN trade.params THEN RMul(trade.params.portion, cash)
    ELSE IF "usdc_value" \in DOMAIN trade.params THEN trade.params.usdc_value
    ELSE R(0)

\* Faulty variant of BuyCost: the commission is left out of the cost
BuyCostNoCommission(usd_value, rate) == usd_value

\* what a buy of usd_value costs: usd_value * (1 + self.commission_rate)
BuyCost(usd_value, rate) == RMul(usd_value, RAdd(R(1), rate))

\* Faulty variant of SellProceeds: the commission is not taken off the proceeds
SellProceedsNoCommission(usd_value, rate) == usd_value

\* what a sale of usd_value brings in: usd_value / (1 + self.commission_rate)
SellProceeds(usd_value, rate) == RDiv(usd_value, RAdd(R(1), rate))

\* commission = usd_value * self.commission_rate
Commission(usd_value, rate) == RMul(usd_value, rate)

\* Faulty variant of AccumulateCommission: the commission is not accumulated
AccumulateCommissionDropped(total, commission) == total

\* self.total_commission += commission
AccumulateCommission(total, commission) == RAdd(total, commission)

\* Faulty variant of BuyRejected: the funds test is missing
BuyRejectedNoFundsTest(c, usd_value, rate) ==
    \/ RLe(c, R(TradeFloor))
    \/ RLe(usd_value, R(TradeFloor))

\* Faulty variant of BuyRejected: a notional equal to the floor is let through
BuyRejectedStrictFloor(c, usd_value, rate) ==
    \/ RLe(c, R(TradeFloor))
    \/ RLt(c, RMul(usd_value, RAdd(R(1), rate)))
    \/ RLt(usd_value, R(TradeFloor))

\* the rejection test of _buy_market (portfolio.py:103)
BuyRejected(c, usd_value, rate) ==
    \/ RLe(c, R(TradeFloor))
    \/ RLt(c, BuyCost(usd_value, rate))
    \/ RLe(usd_value, R(TradeFloor))

\* Portfolio._buy_market; trade already carries executed = FALSE
BuyMarket(trade) ==
    LET usd_value == BuyUsdValue(trade) IN
    IF BuyRejected(cash, usd_value, commission_rate)
    THEN NoChange(<<trade>>, "none")
    ELSE IF ~HasCandle(market_data, trade.symbol, trade.timestamp)
    THEN NoChange(<<>>, LookupError(market_data))
    ELSE LET price      == Close(market_data, trade.symbol, trade.timestamp)
             quantity   == RDiv(usd_value, price)
             commission == Commission(usd_value, commission_rate)
         IN  [cash |-> RSub(cash, BuyCost(usd_value, commission_rate)),
              positions |-> SetPosition(positions, trade.symbol,
                                        RAdd(Held(positions, trade.symbol), quantity)),
              total_commission |-> AccumulateCommission(total_commission, commission),
              ret |-> <<[timestamp |-> trade.timestamp, symbol |-> trade.symbol,
                         type |-> "buy", price |-> price, usd_value |-> usd_value,
                         commission |-> commission, executed |-> TRUE]>>,
              err |-> "none"]

\* the rejection test of _sell_market (portfolio.py:136)
SellRejected(held, quantity, usd_value) ==
    \/ RLt(held, quantity)
    \/ RLe(usd_value, R(TradeFloor))

\* Portfolio._sell_market
SellMarket(trade) ==
    IF ~HasCandle(market_data, trade.symbol, trade.timestamp)
    THEN NoChange(<<>>, LookupError(market_data))
    ELSE IF "portion" \notin DOMAIN trade.params
    THEN [NoChange(<<>>, "KeyError") EXCEPT
             !.positions = SetPosition(positions, trade.symbol, Held(positions, trade.symbol))]
    ELSE LET price     == Close(market_data, trade.symbol, trade.timestamp)
             pos0      == SetPosition(positions, trade.symbol, Held(positions, trade.symbol))
             quantity  == RMul(pos0[trade.symbol], trade.params.portion)
             usd_value == RMul(quantity, price)
         IN  IF SellRejected(pos0[trade.symbol], quantity, usd_value)
             THEN [NoChange(<<trade>>, "none") EXCEPT !.positions = pos0]
             ELSE LET commission == Commission(usd_value, commission_rate) IN
                  [cash |-> RAdd(cash, SellProceeds(usd_value, commission_rate)),
                   positions |-> SetPosition(pos0, trade.symbol,
                                             RSub(pos0[trade.symbol], quantity)),
                   total_commission |-> AccumulateCommission(total_commission, commission),
                   ret |-> <<[timestamp |-> trade.timestamp, symbol |-> trade.symbol,
                              type |-> "sell", price |-> price, usd_value |-> usd_value,
                              commission |-> commission, executed |-> TRUE]>>,
                   err |-> "none"]

\* Faulty variant of NotImplemented: the order is returned untouched
NotImplementedSilent(trade) == NoChange(<<trade>>, "none")

\* Portfolio._buy_limit, _sell_limit, _oco
NotImplemented(trade) == NoChange(<<>>, "NotImplementedError")

\* The dispatch of Portfolio.execute_trade (portfolio.py:77-87): an order of
\* any other type falls through every branch and is returned as it is
Dispatch(trade) ==
    CASE trade.type = "buy_market"  -> BuyMarket(trade)
      [] trade.type = "sell_market" -> SellMarket(trade)
      [] trade.type \in {"buy_limit", "sell_limit", "oco"} -> NotImplemented(trade)
      [] OTHER -> NoChange(<<trade>>, "none")

\* Faulty variant of LogTrade: a returned order is logged whether executed or not
LogTradeAlways(log, out) ==
    IF out.err = "none" THEN Append(log, out.ret[1]) ELSE log

\* the trade log after the call (portfolio.py:89-90)
LogTrade(log, out) ==
    IF out.err = "none" /\ out.ret[1].executed THEN Append(log, out.ret[1]) ELSE log

\* Portfolio.execute_trade(order): the new portfolio state and the outcome
ExecuteTradeEffect(order) ==
    LET trade == [type |-> order.type, symbol |-> order.symbol,
                  timestamp |-> order.timestamp, params |-> order.params,
                  executed |-> FALSE]
        out   == Dispatch(trade)
    IN  /\ cash' = out.cash
        /\ positions' = out.positions
        /\ total_commission' = out.total_commission
        /\ trades' = LogTrade(trades, out)
        /\ ncalls' = ncalls + 1
        /\ last_trade' = <<order>>
        /\ ret' = out.ret
        /\ err' = out.err
        /\ UNCHANGED <<initial_capital, commission_rate, symbols, benchmark_positions,
                       graph_data, market_data>>

\* Portfolio.set_market_data(md)
SetMarketDataEffect(md) ==
    /\ market_data' = md
    /\ benchmark_positions' = BenchmarkPositions(md, initial_capital, symbols)

\* Portfolio.update_graph_data(timestamp): the three lists after the call and
\* the exception raised, if any.  The timestamp is appended before the two
\* valuations are computed, and the total value before the benchmark value.
UpdateGraphData(g, timestamp) ==
    LET tv == TotalUsdValue(market_data, cash, positions, timestamp)
        bv == BenchmarkValue(market_data, benchmark_positions, timestamp)
        g1 == [g  EXCEPT !.timestamp = Append(@, timestamp)]
        g2 == [g1 EXCEPT !.total_value = Append(@, tv[2])]
        g3 == [g2 EXCEPT !.benchmark = Append(@, bv[2])]
    IN  IF tv[1] = "raise" THEN [graph |-> g1, err |-> tv[2]]
        ELSE IF bv[1] = "raise" THEN [graph |-> g2, err |-> bv[2]]
        ELSE [graph |-> g3, err |-> "none"]

\* Portfolio.get_summary: <<"ok", summary>> or <<"raise", exception>>
GetSummary ==
    LET first  == market_data.keys[1]
        last   == LastTs(market_data.data[first])
        fv     == TotalUsdValue(market_data, cash, positions, last)
        active == {s \in DOMAIN positions : RLt(R(0), positions[s])}
        priced == {s \in active : s \in DOMAIN market_data.data}
        value  == [s \in priced |->
                      RMul(positions[s], market_data.data[s][LastTs(market_data.data[s])])]
    IN  IF fv[1] = "raise" THEN fv
        ELSE <<"ok", [initial_capital |-> initial_capital,
                      final_value |-> fv[2],
                      cash |-> cash,
                      total_position_value |-> RSum(value, priced),
                      positions |-> [s \in active |-> positions[s]],
                      position_values |-> value,
                      total_trades |-> Len(trades),
                      total_commission |-> total_commission]>>

-----------------------------------------------------------------------------
(* Strategies (buy_and_hold.py, DCA_strategy.py) *)

\* the declared parameters of a strategy class and their defaults
Parameters(class) ==
    CASE class = "BuyAndHoldStrategy" -> [portion_buy |-> <<1, 2>>, portion_sell |-> R(1)]
      [] class = "DCA_strategy" -> [daily_investment |-> R(0), monthly_investment |-> R(100)]
      [] class = "RSIStrategy" ->
            [rsi_period |-> 14, rsi_oversold |-> R(30), rsi_overbought |-> R(70)]

\* RSIStrategy.risk_parameters and their defaults
RiskParameters ==
    [portion_buy |-> <<1, 2>>, portion_sell |-> <<1, 2>>, stop_loss |-> <<1, 20>>,
     duration |-> 4]

\* whether set_params raises: RSIStrategy builds its defaults with
\* self.parameters.items() + self.risk_parameters.items(), and two dict views
\* cannot be added (TypeError); the other classes build theirs without failure
SetParamsRaises(class, params) ==
    /\ class = "RSIStrategy"
    /\ ~(DOMAIN Parameters(class) \subseteq DOMAIN params)

StrategyClasses == {"BuyAndHoldStrategy", "DCA_strategy"}

\* set_params: every declared key supplied -> the supplied dict, else the defaults
SetParams(class, params) ==
    IF DOMAIN Parameters(class) \subseteq DOMAIN params THEN params ELSE Parameters(class)

\* the timestamps of a series, ascending
RECURSIVE SortedSeq(_)
SortedSeq(S) ==
    IF S = {} THEN <<>>
    ELSE LET m == CHOOSE t \in S : \A u \in S : t <= u
         IN  <<m>> \o SortedSeq(S \ {m})

Index(series) == SortedSeq(DOMAIN series)

NoSignal == [type |-> "null", params |-> <<>>]

\* BuyAndHoldStrategy.generate_signals: the signal column, by position
BuyAndHoldSignal(params, idx, i) ==
    IF i = Len(idx)
    THEN [type |-> "sell_market", params |-> [portion |-> params.portion_sell]]
    ELSE IF i = 1
    THEN [type |-> "buy_market", params |-> [portion |-> params.portion_buy]]
    ELSE NoSignal

\* calendar fields of a timestamp (hour 0 is 00:00 of the last day of a month)
HourOf(ts) == ts % 24
IsFirstOfMonth(ts) == ts \div 24 = 1

\* DCA_strategy.generate_signals: the signal column, by position
DCASignal(params, idx, i) ==
    IF i >= 2 /\ HourOf(idx[i]) = 0 /\ IsFirstOfMonth(idx[i])
    THEN [type |-> "buy_market", params |-> [usdc_value |-> params.monthly_investment]]
    ELSE IF i >= 2 /\ HourOf(idx[i]) = 0
    THEN [type |-> "buy_market", params |-> [usdc_value |-> params.daily_investment]]
    ELSE NoSignal

\* what RSI yields where it has no value (numpy nan), told from every rational
\* by its zero denominator
NaN == <<0, 0>>

\* the rise and the fall of the close from bar i - 1 to bar i (i >= 2)
Gain(c, i) == IF RLt(c[i - 1], c[i]) THEN RSub(c[i], c[i - 1]) ELSE R(0)
Loss(c, i) == IF RLt(c[i], c[i - 1]) THEN RSub(c[i - 1], c[i]) ELSE R(0)

\* Wilder's smoothed averages of TA-Lib's RSI at bar i > n: the plain mean of
\* the first n changes at bar n + 1, then (previous * (n - 1) + change) / n
RECURSIVE AvgGain(_, _, _)
AvgGain(c, n, i) ==
    IF i = n + 1
    THEN RDiv(RSumSeq([k \in 1 .. n |-> Gain(c, k + 1)]), R(n))
    ELSE RDiv(RAdd(RMul(AvgGain(c, n, i - 1), R(n - 1)), Gain(c, i)), R(n))

RECURSIVE AvgLoss(_, _, _)
AvgLoss(c, n, i) ==
    IF i = n + 1
    THEN RDiv(RSumSeq([k \in 1 .. n |-> Loss(c, k + 1)]), R(n))
    ELSE RDiv(RAdd(RMul(AvgLoss(c, n, i - 1), R(n - 1)), Loss(c, i)), R(n))

\* Faulty variant of RSIValue: no value where gain and loss are both zero
RSIValueNaNWhenFlat(g, l) ==
    IF RAdd(g, l) = R(0) THEN NaN ELSE RMul(R(100), RDiv(g, RAdd(g, l)))

\* the RSI of average gain g and average loss l: 100 * g / (g + l), and 0 when
\* g + l is zero (TA-Lib, ta_RSI.c)
RSIValue(g, l) ==
    IF RAdd(g, l) = R(0) THEN R(0) ELSE RMul(R(100), RDiv(g, RAdd(g, l)))

\* Faulty variant of RSI: 0 instead of nan for the first n bars
RSIZeroInWarmUp(c, n) ==
    [i \in 1 .. Len(c) |->
        IF i <= n THEN R(0) ELSE RSIValue(AvgGain(c, n, i), AvgLoss(c, n, i))]

\* talib.RSI(close, timeperiod = n): nan for the first n bars, then RSIValue
RSI(c, n) ==
    [i \in 1 .. Len(c) |->
        IF i <= n THEN NaN ELSE RSIValue(AvgGain(c, n, i), AvgLoss(c, n, i))]

\* the keys of self.params a firing RSI signal reads (RSI_strategy.py:66-68, 78-80)
RSISignalKeys == {"portion_buy", "portion_sell", "stop_loss", "duration"}

\* RSIStrategy.generate_signals: the signal column, by position (a comparison
\* with nan is false)
RSISignal(params, rsi, i) ==
    IF i >= 2 /\ rsi[i] # NaN /\ RLe(rsi[i], params.rsi_oversold)
    THEN [type |-> "buy",
          params |-> [portion |-> params.portion_buy, stop_loss |-> params.stop_loss,
                      duration |-> params.duration, close_anyway |-> FALSE]]
    ELSE IF i >= 2 /\ rsi[i] # NaN /\ RLe(params.rsi_overbought, rsi[i])
    THEN [type |-> "sell",
          params |-> [portion |-> params.portion_sell, stop_loss |-> params.stop_loss,
                      duration |-> params.duration, close_anyway |-> FALSE]]
    ELSE NoSignal

\* whether RSIStrategy.generate_signals raises, and what: talib refuses a
\* period below 2, and a bar that fires reads the risk keys of self.params
RSIGenerateError(params, series) ==
    LET idx == Index(series)
        c   == [i \in 1 .. Len(idx) |-> series[idx[i]]]
        rsi == RSI(c, params.rsi_period)
        Fires(i) == /\ rsi[i] # NaN
                    /\ \/ RLe(rsi[i], params.rsi_oversold)
                       \/ RLe(params.rsi_overbought, rsi[i])
    IN  IF params.rsi_period < 2 THEN "Exception"
        ELSE IF /\ \E i \in 2 .. Len(idx) : Fires(i)
                /\ ~(RSISignalKeys \subseteq DOMAIN params)
        THEN "KeyError"
        ELSE "none"

\* strategy.generate_signals(data): the rows whose signal is not null
GenerateSignals(strat, series) ==
    LET idx == Index(series)
        rsi == IF strat.name = "RSIStrategy"
               THEN RSI([i \in 1 .. Len(idx) |-> series[idx[i]]], strat.params.rsi_period)
               ELSE <<>>
        col == [i \in 1 .. Len(idx) |->
                   [ts |-> idx[i],
                    signal |-> IF strat.name = "BuyAndHoldStrategy"
                               THEN BuyAndHoldSignal(strat.params, idx, i)
                               ELSE IF strat.name = "RSIStrategy"
                               THEN RSISignal(strat.params, rsi, i)
                               ELSE DCASignal(strat.params, idx, i)]]
        NotNull(row) == row.signal # NoSignal
    IN  SelectSeq(col, NotNull)

-----------------------------------------------------------------------------
(* BacktestEngine (backtest_engine.py) *)

NoStrategy == [name |-> "None", params |-> <<>>]

\* Faulty variant of StrategyMissing: the guard never fires
StrategyMissingNever(strat) == FALSE

\* the guard of run_backtest: self.strategy is None
StrategyMissing(strat) == strat = NoStrategy

\* the signal table: every symbol's rows tagged with the symbol, concatenated
\* in the order of the market_data keys (backtest_engine.py:41-46)
RECURSIVE ConcatSignals(_, _, _)
ConcatSignals(strat, md, keys) ==
    IF keys = <<>> THEN <<>>
    ELSE LET rows == GenerateSignals(strat, md.data[Head(keys)])
         IN  [i \in 1 .. Len(rows) |->
                 [ts |-> rows[i].ts, symbol |-> Head(keys), signal |-> rows[i].signal]]
             \o ConcatSignals(strat, md, Tail(keys))

StartTs(md) == CHOOSE t \in {FirstTs(md.data[s]) : s \in DOMAIN md.data} :
                   \A s \in DOMAIN md.data : t <= FirstTs(md.data[s])
EndTs(md)   == CHOOSE t \in {LastTs(md.data[s]) : s \in DOMAIN md.data} :
                   \A s \in DOMAIN md.data : LastTs(md.data[s]) <= t

\* Faulty variant of DateRange: the end of the range is excluded
DateRangeOpenEnd(start, end, freq) ==
    [i \in 1 .. ((end - start + freq - 1) \div freq) |-> start + (i - 1) * freq]

\* pd.date_range(start, end, freq): start, start + freq, ... not past end
DateRange(start, end, freq) ==
    [i \in 1 .. ((end - start) \div freq) + 1 |-> start + (i - 1) * freq]

\* Faulty variant of RowsAt: the rows of the tick in reverse table order
RowsAtReversed(table, ts) ==
    LET AtTs(row) == row.ts = ts
        rows      == SelectSeq(table, AtTs)
    IN  [i \in 1 .. Len(rows) |-> rows[Len(rows) + 1 - i]]

\* signals_df[signals_df.index == ts]
RowsAt(table, ts) ==
    LET AtTs(row) == row.ts = ts IN SelectSeq(table, AtTs)

\* the orders of the symbol lists handed to the engine and to the data mapping
KeyOrders == {<<"BTCUSDC">>, <<"BTCUSDC", "ETHUSDC">>, <<"ETHUSDC", "BTCUSDC">>}

\* the `pairs` lists the engine is constructed with: the request's symbol list,
\* which may name a symbol twice (app.py:121, 163-168)
PairLists == KeyOrders \cup {<<"BTCUSDC", "BTCUSDC">>}

\* the keys, in insertion order, of the dict app.py fills with one series per
\* entry of the symbol list (app.py:140-154): a repeated symbol is one key
RECURSIVE DictKeys(_)
DictKeys(pairs) ==
    IF pairs = <<>> THEN <<>>
    ELSE LET rest == DictKeys(SubSeq(pairs, 1, Len(pairs) - 1))
             last == pairs[Len(pairs)]
         IN  IF \E i \in 1 .. Len(rest) : rest[i] = last THEN rest ELSE Append(rest, last)

\* the market data mappings run_backtest is called with: one series per key,
\* every series on the engine's grid
EngineMarketData(keys, tf) ==
    {MarketData(keys, [s \in Symbols |-> IF s = "BTCUSDC" THEN p ELSE "flat"], cov, tf) :
        p \in {"up", "down"}, cov \in [Symbols -> Coverages]}

\* the parameter dicts set_strategy is called with
StrategyParams(class) ==
    CASE class = "BuyAndHoldStrategy" ->
            {<<>>,
             [portion_buy |-> R(1), portion_sell |-> R(1)],
             [portion_buy |-> <<1, 1000>>, portion_sell |-> <<1, 2>>],
             [portion_buy |-> <<1, 2>>]}
      [] class = "DCA_strategy" ->
            {<<>>, [daily_investment |-> R(10), monthly_investment |-> R(600)]}
      [] class = "RSIStrategy" ->
            {<<>>,
             [rsi_period |-> 2],
             [rsi_period |-> 2, rsi_oversold |-> R(30), rsi_overbought |-> R(70)]}
            \cup
            {[rsi_period |-> n, rsi_oversold |-> th[1], rsi_overbought |-> th[2]]
                 @@ RiskParameters :
                 n \in 1 .. MaxTick + 1, th \in {<<R(30), R(70)>>, <<R(-1), R(101)>>}}

\* BacktestEngine.__init__ (which constructs the Portfolio)
InitEngine ==
    /\ mode = "engine"
    /\ \E capital \in Capitals, rate \in Rates, pairs \in PairLists :
           PortfolioInit(capital, rate, pairs)
    /\ strategy = NoStrategy
    /\ timeframe \in Timeframes
    /\ signals_df = <<>>
    /\ ticks = <<>>
    /\ tick_i = 0
    /\ to_process = <<>>
    /\ results = <<>>
    /\ pc = "idle"
    /\ ncalls = 0
    /\ last_trade = <<>>
    /\ ret = <<>>
    /\ err = "none"
    /\ prior = <<>>
    /\ metrics = <<>>
    /\ cache = <<>>
    /\ fetches = <<>>
    /\ returned_df = <<>>
    /\ DataAtRest

\* the strategy classes the engine's module imports
AllStrategyClasses == StrategyClasses \cup {"RSIStrategy"}

\* the names of the engine's module that globals()[strategy_class]() can
\* construct without arguments: the strategy classes and BacktestEngine itself
Constructible == AllStrategyClasses \cup {"BacktestEngine"}

\* the identifiers set_strategy is called with; "MACDStrategy" is no name of
\* the engine's module
StrategyIdentifiers == Constructible \cup {"MACDStrategy"}

\* the parameter dicts set_strategy is called with on an engine; for
\* RSIStrategy the empty dict and a complete one
EngineStrategyParams(class) ==
    IF class \in StrategyClasses THEN StrategyParams(class)
    ELSE IF class = "RSIStrategy"
    THEN {<<>>,
          [rsi_period |-> 2, rsi_oversold |-> R(30), rsi_overbought |-> R(70)]
              @@ RiskParameters}
    ELSE {<<>>}

\* self.strategy and the exception after set_strategy (backtest_engine.py:
\* 29-30): line 29 raises KeyError for a name the module does not have, and
\* assigns the new object otherwise; line 30 then raises AttributeError on an
\* object without set_params, or what set_params raises.  An object whose
\* set_params did not return has no self.params (params <<>>).
SetStrategyOutcome(class, params) ==
    IF class \notin Constructible THEN [strategy |-> strategy, err |-> "KeyError"]
    ELSE IF class \notin AllStrategyClasses
    THEN [strategy |-> [name |-> class, params |-> <<>>], err |-> "AttributeError"]
    ELSE IF SetParamsRaises(class, params)
    THEN [strategy |-> [name |-> class, params |-> <<>>], err |-> "TypeError"]
    ELSE [strategy |-> [name |-> class, params |-> SetParams(class, params)],
          err |-> "none"]

\* BacktestEngine.set_strategy(strategy_params, strategy_class)
SetStrategyWith(class, params) ==
    /\ strategy' = SetStrategyOutcome(class, params).strategy
    /\ err' = SetStrategyOutcome(class, params).err
    /\ UNCHANGED <<mode, prior, metrics, data_vars, portfolio_vars, timeframe, signals_df, ticks, tick_i,
                   to_process, results, pc, ncalls, last_trade, ret>>

\* set_strategy called once on a new engine, with any identifier and parameters
SetStrategy ==
    /\ pc = "idle"
    /\ strategy = NoStrategy
    /\ err = "none"
    /\ \E class \in StrategyIdentifiers : \E params \in EngineStrategyParams(class) :
           SetStrategyWith(class, params)

\* run_backtest up to the loop (backtest_engine.py:34-53): the strategy guard,
\* set_market_data, the signal table and the grid
RunBacktestWith(md) ==
    /\ IF StrategyMissing(strategy)
       THEN /\ pc' = "failed"
            /\ err' = "ValueError"
            /\ UNCHANGED <<portfolio_vars, signals_df, ticks, tick_i>>
       ELSE IF strategy.name = "None" \/ strategy.params = <<>>
       THEN \* generate_signals of None, of an object that has no such method
            \* or of a strategy without self.params, after set_market_data
            /\ SetMarketDataEffect(md)
            /\ pc' = "failed"
            /\ err' = "AttributeError"
            /\ UNCHANGED <<initial_capital, commission_rate, symbols, cash, positions,
                           trades, graph_data, total_commission, signals_df, ticks, tick_i>>
       ELSE /\ SetMarketDataEffect(md)
            /\ signals_df' = ConcatSignals(strategy, md, md.keys)
            /\ ticks' = DateRange(StartTs(md), EndTs(md), timeframe)
            /\ tick_i' = 1
            /\ pc' = IF DateRange(StartTs(md), EndTs(md), timeframe) = <<>>
                     THEN "summary" ELSE "tick"
            /\ err' = "none"
            /\ UNCHANGED <<initial_capital, commission_rate, symbols, cash, positions,
                           trades, graph_data, total_commission>>
    /\ UNCHANGED <<mode, prior, metrics, data_vars, strategy, timeframe, to_process, results, ncalls, last_trade, ret>>

\* run_backtest called on an idle engine with any market data
RunBacktest ==
    /\ pc = "idle"
    /\ \E md \in EngineMarketData(DictKeys(symbols), timeframe) : RunBacktestWith(md)

\* where the loop goes once the rows `left` of tick i remain to be executed
AfterRows(left, i) ==
    IF left # <<>> THEN [pc |-> "signals", tick_i |-> i]
    ELSE IF i < Len(ticks) THEN [pc |-> "tick", tick_i |-> i + 1]
    ELSE [pc |-> "summary", tick_i |-> i]

\* the head of the loop body (backtest_engine.py:56-57): the equity point of
\* the tick, then the selection of the tick's rows
SampleTick ==
    /\ pc = "tick"
    /\ LET ts   == ticks[tick_i]
           u    == UpdateGraphData(graph_data, ts)
           rows == RowsAt(signals_df, ts)
       IN  /\ graph_data' = u.graph
           /\ err' = u.err
           /\ IF u.err # "none"
              THEN pc' = "failed" /\ UNCHANGED <<tick_i, to_process>>
              ELSE /\ to_process' = rows
                   /\ pc' = AfterRows(rows, tick_i).pc
                   /\ tick_i' = AfterRows(rows, tick_i).tick_i
    /\ UNCHANGED <<mode, prior, metrics, data_vars, initial_capital, commission_rate, symbols, cash, positions,
                   benchmark_positions, trades, total_commission, market_data,
                   strategy, timeframe, signals_df, ticks, results, ncalls, last_trade, ret>>

\* one iteration of the inner loop (backtest_engine.py:58-65)
ExecuteSignal ==
    /\ pc = "signals"
    /\ LET row == Head(to_process) IN
       ExecuteTradeEffect([type |-> row.signal.type, symbol |-> row.symbol,
                           timestamp |-> ticks[tick_i], params |-> row.signal.params])
    /\ IF err' # "none"
       THEN pc' = "failed" /\ UNCHANGED <<tick_i, to_process>>
       ELSE /\ to_process' = Tail(to_process)
            /\ pc' = AfterRows(Tail(to_process), tick_i).pc
            /\ tick_i' = AfterRows(Tail(to_process), tick_i).tick_i
    /\ UNCHANGED <<mode, prior, metrics, data_vars, strategy, timeframe, signals_df, ticks, results>>

\* the end of run_backtest (backtest_engine.py:67-81)
Finish ==
    /\ pc = "summary"
    /\ LET s == GetSummary IN
       IF s[1] = "raise"
       THEN pc' = "failed" /\ err' = s[2] /\ UNCHANGED results
       ELSE /\ pc' = "done"
            /\ err' = "none"
            /\ results' = <<[portfolio_summary |-> s[2], trades_history |-> trades,
                             graph_data |-> graph_data]>>
    /\ UNCHANGED <<mode, prior, metrics, data_vars, portfolio_vars, strategy, timeframe, signals_df, ticks, tick_i,
                   to_process, ncalls, last_trade, ret>>

-----------------------------------------------------------------------------
(* PerformanceMetrics (performance_metrics.py) as the calling layer uses it *)

\* the literals of _calculate_return_metrics
Percent == 100
HoursPerDay == 24

\* (graph_data['timestamp'].max() - graph_data['timestamp'].min()).days
Days(T) ==
    LET hi == CHOOSE t \in {T[i] : i \in 1 .. Len(T)} : \A i \in 1 .. Len(T) : T[i] <= t
        lo == CHOOSE t \in {T[i] : i \in 1 .. Len(T)} : \A i \in 1 .. Len(T) : t <= T[i]
    IN  (hi - lo) \div HoursPerDay

\* Faulty variant of TotalReturn: the gain is divided by the final value
TotalReturnOverFinal(initial, final) == RDiv(RSub(final, initial), final)

\* total_return = (final - initial) / initial
TotalReturn(initial, final) == RDiv(RSub(final, initial), initial)

\* PerformanceMetrics._calculate_return_metrics: <<"ok", dict>> or <<"raise",
\* exception>>.  annualized_return_pct is (1 + total_return) ** (365 / days) - 1,
\* a power with a fractional exponent: its value is not represented, the
\* failures of its computation are.
ReturnMetrics(res) ==
    LET initial == res.portfolio_summary.initial_capital
        final   == res.portfolio_summary.final_value
        T       == res.graph_data.timestamp
    IN  IF initial = R(0) THEN <<"raise", "ZeroDivisionError">>
        ELSE IF T = <<>> THEN <<"raise", "UnboundLocalError">>
        ELSE IF Days(T) = 0 THEN <<"raise", "ZeroDivisionError">>
        ELSE <<"ok", [total_return_pct |-> RMul(TotalReturn(initial, final), R(Percent))]>>

\* PerformanceMetrics._calculate_trade_metrics
TradeMetrics(res) ==
    IF res.trades_history = <<>>
    THEN [total_trades |-> 0, win_rate |-> 0, avg_trade_return |-> 0]
    ELSE [total_trades |-> Len(res.trades_history), win_rate_pct |-> 0,
          avg_trade_return_pct |-> 0]

\* PerformanceMetrics._calculate_benchmark_metrics, given the return metrics
BenchmarkMetrics(res, return_metrics) ==
    LET B       == res.graph_data.benchmark
        initial == B[1]
        final   == B[Len(B)]
        bench   == IF initial # R(0)
                   THEN RMul(RDiv(RSub(final, initial), initial), R(Percent))
                   ELSE R(0)
    IN  [benchmark_return_pct |-> bench,
         excess_return_pct |-> RSub(return_metrics.total_return_pct, bench)]

\* PerformanceMetrics.calculate_all_metrics: <<"ok", dict>> or <<"raise",
\* exception>>.  The risk metrics (standard deviations and square roots of the
\* curve's returns) are computed first and raise nothing on a non-empty curve;
\* their values are not represented.
CalculateAllMetrics(res) ==
    LET r == ReturnMetrics(res) IN
    IF r[1] = "raise" THEN r
    ELSE <<"ok", [return_metrics |-> r[2],
                  trade_metrics |-> TradeMetrics(res),
                  benchmark_metrics |-> BenchmarkMetrics(res, r[2])]>>

\* the keys of the dict PerformanceMetrics._calculate_risk_metrics returns; the
\* values are not represented
RiskMetricsKeys(res) ==
    IF res.graph_data.timestamp = <<>>
    THEN {"volatility", "max_drawdown", "sharpe_ratio", "sortino_ratio"}
    ELSE {"volatility_pct", "max_drawdown_pct", "sharpe_ratio", "sortino_ratio"}

\* PerformanceMetrics.get_summary_report: <<"ok", "report">> or <<"raise",
\* exception>>; the report reads the metrics by key, the risk metrics before
\* the trade metrics
GetSummaryReport(res) ==
    LET m == CalculateAllMetrics(res) IN
    IF m[1] = "raise" THEN m
    ELSE IF ~({"sharpe_ratio", "sortino_ratio", "max_drawdown_pct", "volatility_pct"}
                 \subseteq RiskMetricsKeys(res))
    THEN <<"raise", "KeyError">>
    ELSE IF ~({"total_trades", "win_rate_pct"} \subseteq DOMAIN m[2].trade_metrics)
    THEN <<"raise", "KeyError">>
    ELSE <<"ok", "report">>

\* the calling layer after a run that returned (app.py:190-198): the metrics of
\* the results, or {} when their computation raises
CalculateMetrics ==
    /\ mode = "engine"
    /\ pc = "done"
    /\ metrics = <<>>
    /\ LET m == CalculateAllMetrics(results[1]) IN
       metrics' = <<IF m[1] = "ok" THEN m[2] ELSE <<>>>>
    /\ UNCHANGED <<mode, prior, data_vars, portfolio_vars, engine_vars, call_vars>>

\* the response of the calling layer to one invocation (app.py:183-248): none
\* yet (<<>>), the error response of the outer handler when the run raised, or
\* the success response, whose metrics are {} when their computation raised
Response ==
    IF pc = "failed" THEN <<[error |-> err]>>
    ELSE IF pc = "done" /\ metrics # <<>>
    THEN <<[success |-> TRUE, results |-> results[1], metrics |-> metrics[1]]>>
    ELSE <<>>

Next ==
    \/ SetStrategy
    \/ RunBacktest
    \/ SampleTick
    \/ ExecuteSignal
    \/ Finish
    \/ CalculateMetrics

Spec == InitEngine /\ [][Next]_vars

-----------------------------------------------------------------------------
(* Two runs on two engines given the same inputs *)

\* BacktestEngine.__init__ once more, with the constructor arguments of the
\* engine whose run has ended; what that run produced is kept in `prior`
Rerun ==
    /\ mode = "engine"
    /\ pc \in {"done", "failed"}
    /\ prior = <<>>
    /\ prior' = <<[strategy |-> strategy, market_data |-> market_data,
                   trades |-> trades, graph_data |-> graph_data,
                   results |-> results, pc |-> pc, err |-> err]>>
    /\ LET p == NewPortfolio(initial_capital, commission_rate, symbols) IN
       /\ cash' = p.cash
       /\ positions' = p.positions
       /\ benchmark_positions' = p.benchmark_positions
       /\ trades' = p.trades
       /\ graph_data' = p.graph_data
       /\ total_commission' = p.total_commission
       /\ market_data' = p.market_data
    /\ strategy' = NoStrategy
    /\ signals_df' = <<>>
    /\ ticks' = <<>>
    /\ tick_i' = 0
    /\ to_process' = <<>>
    /\ results' = <<>>
    /\ pc' = "idle"
    /\ ncalls' = 0
    /\ last_trade' = <<>>
    /\ ret' = <<>>
    /\ err' = "none"
    /\ metrics' = <<>>
    /\ UNCHANGED <<mode, data_vars, initial_capital, commission_rate, symbols, timeframe>>

\* set_strategy on the second engine, with a class and parameters that
\* configure the strategy the first engine had
SetStrategyAgain ==
    /\ pc = "idle"
    /\ prior # <<>>
    /\ strategy = NoStrategy
    /\ prior[1].strategy # NoStrategy
    /\ \E class \in StrategyIdentifiers : \E params \in EngineStrategyParams(class) :
           /\ SetStrategyOutcome(class, params).strategy = prior[1].strategy
           /\ SetStrategyWith(class, params)

\* run_backtest on the second engine, with the market data of the first run
RunBacktestAgain ==
    /\ pc = "idle"
    /\ prior # <<>>
    /\ strategy = prior[1].strategy
    /\ \E md \in EngineMarketData(DictKeys(symbols), timeframe) :
           /\ prior[1].market_data.attached => md = prior[1].market_data
           /\ RunBacktestWith(md)

FirstRun ==
    /\ prior = <<>>
    /\ (SetStrategy \/ RunBacktest)

NextTwoRuns ==
    \/ FirstRun
    \/ SampleTick
    \/ ExecuteSignal
    \/ Finish
    \/ Rerun
    \/ SetStrategyAgain
    \/ RunBacktestAgain

\* the first engine: capital 1000 on the daily grid, any rate, pairs and strategy
InitTwoRuns ==
    /\ InitEngine
    /\ initial_capital = R(1000)
    /\ timeframe = 24

SpecTwoRuns == InitTwoRuns /\ [][NextTwoRuns]_vars

-----------------------------------------------------------------------------
(* A Portfolio driven directly *)

\* the series the directly driven portfolio is given: BTCUSDC has a candle at
\* every tick, ETHUSDC has none at hour 0
PortfolioMarketData ==
    MarketData(<<"BTCUSDC", "ETHUSDC">>,
               [s \in Symbols |-> IF s = "BTCUSDC" THEN "up" ELSE "down"],
               [s \in Symbols |-> IF s = "BTCUSDC" THEN 0 .. MaxTick ELSE 1 .. MaxTick],
               12)

BuyParams  == {[portion |-> <<1, 1000>>], [portion |-> <<1, 2>>], [portion |-> R(1)],
               [portion |-> R(2)], [usdc_value |-> R(5)], [usdc_value |-> R(6)],
               [usdc_value |-> R(-10)]}
SellParams == {[portion |-> <<1, 2>>], [portion |-> R(1)], [portion |-> R(2)],
               [portion |-> R(-1)]}

\* the orders execute_trade is called with
Orders ==
    {[type |-> "buy_market", symbol |-> s, timestamp |-> t, params |-> p] :
        s \in Symbols, t \in {0, 12}, p \in BuyParams}
    \cup
    {[type |-> "sell_market", symbol |-> s, timestamp |-> t, params |-> p] :
        s \in Symbols, t \in {0, 12}, p \in SellParams}
    \cup
    {[type |-> k, symbol |-> s, timestamp |-> 12, params |-> [portion |-> <<1, 2>>]] :
        k \in {"buy_limit", "sell_limit", "oco"}, s \in Symbols}

InitPortfolio ==
    /\ mode = "portfolio"
    /\ \E rate \in Rates : PortfolioInit(R(1000), rate, <<"BTCUSDC", "ETHUSDC">>)
    /\ strategy = NoStrategy
    /\ timeframe = 12
    /\ signals_df = <<>>
    /\ ticks = <<>>
    /\ tick_i = 0
    /\ to_process = <<>>
    /\ results = <<>>
    /\ pc = "idle"
    /\ ncalls = 0
    /\ last_trade = <<>>
    /\ ret = <<>>
    /\ err = "none"
    /\ prior = <<>>
    /\ metrics = <<>>
    /\ cache = <<>>
    /\ fetches = <<>>
    /\ returned_df = <<>>
    /\ DataAtRest

\* portfolio.set_market_data(market_data)
AttachMarketData ==
    /\ ~market_data.attached
    /\ SetMarketDataEffect(PortfolioMarketData)
    /\ UNCHANGED <<mode, prior, metrics, data_vars, initial_capital, commission_rate, symbols, cash, positions,
                   trades, graph_data, total_commission, engine_vars, call_vars>>

\* portfolio.execute_trade(order)
ExecuteTrade ==
    /\ ncalls < MaxCalls
    /\ \E order \in Orders : ExecuteTradeEffect(order)
    /\ UNCHANGED <<mode, prior, metrics, data_vars, engine_vars>>

NextPortfolio ==
    \/ AttachMarketData
    \/ ExecuteTrade

SpecPortfolio == InitPortfolio /\ [][NextPortfolio]_vars

-----------------------------------------------------------------------------
(* A strategy object driven directly: constructed, configured with            *)
(* set_params, then asked for the signals of one series.  Here market_data    *)
(* holds that one series (under the key BTCUSDC) and signals_df the rows       *)
(* generate_signals returned.                                                  *)

\* the constructor of a strategy class: no self.params yet
InitStrategy ==
    /\ mode = "strategy"
    /\ PortfolioInit(R(1000), R(0), <<"BTCUSDC">>)
    /\ \E class \in AllStrategyClasses : strategy = [name |-> class, params |-> <<>>]
    /\ timeframe \in Timeframes
    /\ signals_df = <<>>
    /\ ticks = <<>>
    /\ tick_i = 0
    /\ to_process = <<>>
    /\ results = <<>>
    /\ pc = "new"
    /\ ncalls = 0
    /\ last_trade = <<>>
    /\ ret = <<>>
    /\ err = "none"
    /\ prior = <<>>
    /\ metrics = <<>>
    /\ cache = <<>>
    /\ fetches = <<>>
    /\ returned_df = <<>>
    /\ DataAtRest

\* strategy.set_params(params); the argument is kept in last_trade
ConfigureStrategy ==
    /\ mode = "strategy"
    /\ pc = "new"
    /\ \E params \in StrategyParams(strategy.name) :
           /\ last_trade' = <<[params |-> params]>>
           /\ IF SetParamsRaises(strategy.name, params)
              THEN /\ pc' = "failed"
                   /\ err' = "TypeError"
                   /\ UNCHANGED strategy
              ELSE /\ pc' = "configured"
                   /\ err' = "none"
                   /\ strategy' = [strategy EXCEPT !.params = SetParams(strategy.name, params)]
    /\ UNCHANGED <<mode, prior, metrics, data_vars, portfolio_vars, timeframe, signals_df, ticks,
                   tick_i, to_process, results, ncalls, ret>>

\* strategy.generate_signals(series) on a configured strategy
GenerateSignalsOfSeries ==
    /\ mode = "strategy"
    /\ pc = "configured"
    /\ \E path \in ClosePaths, cov \in Coverages :
           LET md == MarketData(<<"BTCUSDC">>, [s \in Symbols |-> path],
                                [s \in Symbols |-> cov], timeframe)
               e  == IF strategy.name = "RSIStrategy"
                     THEN RSIGenerateError(strategy.params, md.data["BTCUSDC"])
                     ELSE "none"
           IN  /\ market_data' = md
               /\ err' = e
               /\ IF e # "none"
                  THEN pc' = "failed" /\ UNCHANGED signals_df
                  ELSE /\ pc' = "generated"
                       /\ signals_df' = GenerateSignals(strategy, md.data["BTCUSDC"])
    /\ UNCHANGED <<mode, prior, metrics, data_vars, initial_capital, commission_rate, symbols, cash,
                   positions, benchmark_positions, trades, graph_data, total_commission,
                   strategy, timeframe, ticks, tick_i, to_process, results, ncalls,
                   last_trade, ret>>

NextStrategy ==
    \/ ConfigureStrategy
    \/ GenerateSignalsOfSeries

SpecStrategy == InitStrategy /\ [][NextStrategy]_vars

-----------------------------------------------------------------------------
(* DataManager (data_manager.py) for one (symbol, timeframe): one CSV file.  *)
(* In this specification time is counted in the unit of the request         *)
(* parameters startTime / endTime (data_manager.py:115-116), so that the     *)
(* `+ 1` of line 150 is one unit, and `timeframe` is the width of a bar in   *)
(* that unit.  A candle is its close; a data frame is a function from the    *)
(* timestamps of its rows to their candles.                                  *)

\* the width of a bar
BarWidth == 3

\* the exchange has the bars 0 .. MaxBar, bar k opening at k * BarWidth
MaxBar == 3

\* the `limit` parameter of a klines request
KlineLimit == 1000

\* the open times of the bars the exchange has
RemoteTimestamps == {BarWidth * k : k \in 0 .. MaxBar}

\* the candle of the exchange that opens at ts
RemoteCandle(ts) == ClosePath("up", ts \div BarWidth)

\* the start_date / end_date a request may name
RequestTimes == 0 .. BarWidth * MaxBar + 1

MinOf(S) == CHOOSE t \in S : \A u \in S : t <= u
MaxOf(S) == CHOOSE t \in S : \A u \in S : u <= t

\* df[(df['timestamp'] >= start_date) & (df['timestamp'] <= end_date)]
InRange(df, start_date, end_date) ==
    [t \in {u \in DOMAIN df : start_date <= u /\ u <= end_date} |-> df[t]]

\* the loop over expected_timestamps (data_manager.py:93-106): expected[i ..]
\* is still to be visited, gap_start is <<>> (None) or <<ts>>
RECURSIVE ScanGaps(_, _, _, _, _)
ScanGaps(expected, i, actual, gap_start, tf) ==
    IF i > Len(expected)
    THEN IF gap_start # <<>> THEN <<<<gap_start[1], MaxOf(actual)>>>> ELSE <<>>
    ELSE IF expected[i] \notin actual
    THEN ScanGaps(expected, i + 1, actual,
                  IF gap_start = <<>> THEN <<expected[i]>> ELSE gap_start, tf)
    ELSE IF gap_start # <<>>
    THEN <<<<gap_start[1], expected[i] - tf>>>> \o ScanGaps(expected, i + 1, actual, <<>>, tf)
    ELSE ScanGaps(expected, i + 1, actual, <<>>, tf)

\* Faulty variant of FindMissingRanges: the whole request is always missing
FindMissingRangesAlways(df, start_date, end_date, tf) == <<<<start_date, end_date>>>>

\* DataManager._find_missing_ranges: the list of (range_start, range_end)
FindMissingRanges(df, start_date, end_date, tf) ==
    IF DOMAIN df = {} THEN <<<<start_date, end_date>>>>
    ELSE LET first_ts == MinOf(DOMAIN df)
             last_ts  == MaxOf(DOMAIN df)
             before   == IF start_date < first_ts
                         THEN <<<<start_date, first_ts - tf>>>> ELSE <<>>
             after    == IF end_date > last_ts
                         THEN <<<<last_ts + tf, end_date>>>> ELSE <<>>
             in_range == DOMAIN InRange(df, start_date, end_date)
             gaps     == IF Cardinality(in_range) > 1
                         THEN ScanGaps(DateRange(MinOf(in_range), MaxOf(in_range), tf),
                                       1, in_range, <<>>, tf)
                         ELSE <<>>
         IN  before \o after \o gaps

\* the klines the exchange answers a request with: the bars that open at or
\* after startTime and, on an exchange that honours it, not after endTime; the
\* earliest `limit` of them
Klines(startTime, endTime) ==
    LET all == {t \in RemoteTimestamps :
                    startTime <= t /\ (remote.honours_end => t <= endTime)}
    IN  {t \in all : Cardinality({u \in all : u < t}) < KlineLimit}

\* which request of a call is answered with a RequestException (data_manager.py
\* :154-156), counted over the requests of the call: 0 is none
FailingRequest == {0, 1, 2}

\* the count that is left for the requests after `sent` more were issued
FailingAfter(fail, sent) == IF fail > sent THEN fail - sent ELSE 0

\* DataManager._fetch_from_binance: the requests issued and the rows fetched.
\* The request numbered `fail` raises RequestException, which ends the loop
\* with the rows fetched so far; every other request is answered.
RECURSIVE FetchFromBinance(_, _, _)
FetchFromBinance(start_ms, end_ms, fail) ==
    IF ~(start_ms < end_ms) THEN [requests |-> <<>>, data |-> <<>>]
    ELSE LET got         == Klines(start_ms, end_ms)
             request(ok) == [startTime |-> start_ms, endTime |-> end_ms, ok |-> ok,
                             rows |-> IF ok THEN got ELSE {}]
         IN  IF fail = 1 THEN [requests |-> <<request(FALSE)>>, data |-> <<>>]
             ELSE IF got = {} THEN [requests |-> <<request(TRUE)>>, data |-> <<>>]
             ELSE LET more == FetchFromBinance(MaxOf(got) + 1, end_ms, FailingAfter(fail, 1))
                  IN  [requests |-> <<request(TRUE)>> \o more.requests,
                       data |-> [t \in got |-> RemoteCandle(t)] @@ more.data]

\* the loop over missing_ranges (data_manager.py:50-55): df is concatenated
\* with what each range fetched; drop_duplicates keeps the row that came first
RECURSIVE FetchRanges(_, _, _)
FetchRanges(ranges, df, fail) ==
    IF ranges = <<>> THEN [requests |-> <<>>, df |-> df]
    ELSE LET new  == FetchFromBinance(Head(ranges)[1], Head(ranges)[2], fail)
             rest == FetchRanges(Tail(ranges), df @@ new.data,
                                 FailingAfter(fail, Len(new.requests)))
         IN  [requests |-> new.requests \o rest.requests, df |-> rest.df]

\* DataManager.get_historical_data(symbol, start_date, end_date, timeframe);
\* the arguments are kept in last_trade.  The method has no raise statement and
\* _fetch_from_binance catches the exception of a request: the call returns.
GetHistoricalData ==
    /\ mode = "data"
    /\ \E start_date \in RequestTimes, end_date \in RequestTimes :
           LET missing_ranges == FindMissingRanges(cache, start_date, end_date, timeframe)
               unfailing      == FetchRanges(missing_ranges, cache, 0)
           IN  \* a request that is never reached cannot fail
               \E fail \in {f \in FailingRequest : f <= Len(unfailing.requests)} :
                   LET out == IF fail = 0 THEN unfailing
                              ELSE FetchRanges(missing_ranges, cache, fail)
                   IN  /\ last_trade' = <<[start_date |-> start_date, end_date |-> end_date]>>
                       /\ fetches' = out.requests
                       /\ cache' = out.df
                       /\ returned_df' = InRange(out.df, start_date, end_date)
                       /\ err' = "none"
    /\ UNCHANGED <<mode, prior, metrics, portfolio_vars, engine_vars, ncalls, ret,
                   remote, paging, calls>>

\* a DataManager whose file holds any of the exchange's bars (no file: none)
InitData ==
    /\ mode = "data"
    /\ PortfolioInit(R(1000), R(0), <<"BTCUSDC">>)
    /\ strategy = NoStrategy
    /\ timeframe = BarWidth
    /\ signals_df = <<>>
    /\ ticks = <<>>
    /\ tick_i = 0
    /\ to_process = <<>>
    /\ results = <<>>
    /\ pc = "idle"
    /\ ncalls = 0
    /\ last_trade = <<>>
    /\ ret = <<>>
    /\ err = "none"
    /\ prior = <<>>
    /\ metrics = <<>>
    /\ \E held \in SUBSET RemoteTimestamps : cache = [t \in held |-> RemoteCandle(t)]
    /\ fetches = <<>>
    /\ returned_df = <<>>
    /\ DataAtRest

NextData == GetHistoricalData

SpecData == InitData /\ [][NextData]_vars

\* the candle of a bar as the file recorded it while the bar was still open
StaleCandle(ts) == ClosePath("down", ts \div BarWidth)

\* a DataManager whose file holds candles recorded before their bars closed,
\* in front of an exchange whose answers run past endTime
InitDataOverlap ==
    /\ mode = "data"
    /\ PortfolioInit(R(1000), R(0), <<"BTCUSDC">>)
    /\ strategy = NoStrategy
    /\ timeframe = BarWidth
    /\ signals_df = <<>>
    /\ ticks = <<>>
    /\ tick_i = 0
    /\ to_process = <<>>
    /\ results = <<>>
    /\ pc = "idle"
    /\ ncalls = 0
    /\ last_trade = <<>>
    /\ ret = <<>>
    /\ err = "none"
    /\ prior = <<>>
    /\ metrics = <<>>
    /\ \E held \in SUBSET RemoteTimestamps : cache = [t \in held |-> StaleCandle(t)]
    /\ fetches = <<>>
    /\ returned_df = <<>>
    /\ remote = [honours_end |-> FALSE]
    /\ paging = <<>>
    /\ calls = <<>>

SpecDataOverlap == InitDataOverlap /\ [][NextData]_vars

-----------------------------------------------------------------------------
(* DataManager._fetch_from_binance (data_manager.py:110-158) stepped request *)
(* by request, in front of any remote source whose answers hold at most      *)
(* `limit` rows that open at or after startTime.  `paging` holds the locals  *)
(* of the call: start_ms, end_ms, all_data (the timestamps appended), and    *)
(* `requests`, the requests issued so far, each [startTime, ok, rows (the    *)
(* timestamps of the answer, in the order of the answer)].                   *)

\* the open times an answer may carry are 0 .. MaxTime
MaxTime == 3

\* the most rows an answer carries
MaxPage == 2

Min(a, b) == IF a <= b THEN a ELSE b

\* the answers the remote source may give to a request from startTime: no two
\* rows of an answer open at the same time
Pages(startTime) ==
    LET times == {t \in 0 .. MaxTime : startTime <= t}
    IN  {p \in UNION {[1 .. n -> times] : n \in 0 .. Min(MaxPage, KlineLimit)} :
            \A i, j \in DOMAIN p : i # j => p[i] # p[j]}

\* Faulty variant of NextCursor: the next request starts at the last row
NextCursorAtLastRow(data) == data[Len(data)]

\* start_ms = data[-1][0] + 1 (data_manager.py:150)
NextCursor(data) == data[Len(data)] + 1

\* the while test of data_manager.py:128
PagingInLoop == mode = "paging" /\ paging.pc = "loop" /\ paging.start_ms < paging.end_ms

\* data_manager.py:129-153: the request is answered with a page that has rows
PagingPage ==
    /\ PagingInLoop
    /\ \E data \in Pages(paging.start_ms) \ {<<>>} :
           paging' = [paging EXCEPT
                         !.requests = Append(@, [startTime |-> paging.start_ms,
                                                 ok |-> TRUE, rows |-> data]),
                         !.all_data = @ \o data,
                         !.start_ms = NextCursor(data)]
    /\ UNCHANGED <<mode, prior, metrics, portfolio_vars, engine_vars, call_vars,
                   cache, fetches, returned_df, remote, calls>>

\* data_manager.py:136-137: the request is answered with an empty page: break
PagingEmptyPage ==
    /\ PagingInLoop
    /\ paging' = [paging EXCEPT
                     !.requests = Append(@, [startTime |-> paging.start_ms,
                                             ok |-> TRUE, rows |-> <<>>]),
                     !.pc = "returned"]
    /\ UNCHANGED <<mode, prior, metrics, portfolio_vars, engine_vars, call_vars,
                   cache, fetches, returned_df, remote, calls>>

\* data_manager.py:154-156: the request raises RequestException: break
PagingFailure ==
    /\ PagingInLoop
    /\ paging' = [paging EXCEPT
                     !.requests = Append(@, [startTime |-> paging.start_ms,
                                             ok |-> FALSE, rows |-> <<>>]),
                     !.pc = "returned"]
    /\ UNCHANGED <<mode, prior, metrics, portfolio_vars, engine_vars, call_vars,
                   cache, fetches, returned_df, remote, calls>>

\* data_manager.py:128, 158: the while test fails and the call returns
PagingExit ==
    /\ mode = "paging"
    /\ paging.pc = "loop"
    /\ ~(paging.start_ms < paging.end_ms)
    /\ paging' = [paging EXCEPT !.pc = "returned"]
    /\ UNCHANGED <<mode, prior, metrics, portfolio_vars, engine_vars, call_vars,
                   cache, fetches, returned_df, remote, calls>>

\* one call of _fetch_from_binance for a sub-range (start_ms, end_ms)
InitPaging ==
    /\ mode = "paging"
    /\ PortfolioInit(R(1000), R(0), <<"BTCUSDC">>)
    /\ strategy = NoStrategy
    /\ timeframe = BarWidth
    /\ signals_df = <<>>
    /\ ticks = <<>>
    /\ tick_i = 0
    /\ to_process = <<>>
    /\ results = <<>>
    /\ pc = "idle"
    /\ ncalls = 0
    /\ last_trade = <<>>
    /\ ret = <<>>
    /\ err = "none"
    /\ prior = <<>>
    /\ metrics = <<>>
    /\ cache = <<>>
    /\ fetches = <<>>
    /\ returned_df = <<>>
    /\ remote = [honours_end |-> FALSE]
    /\ \E start_ms \in 0 .. MaxTime, end_ms \in 0 .. MaxTime + 1 :
           paging = [pc |-> "loop", start_ms |-> start_ms, end_ms |-> end_ms,
                     all_data |-> <<>>, requests |-> <<>>]
    /\ calls = <<>>

NextPaging ==
    \/ PagingPage
    \/ PagingEmptyPage
    \/ PagingFailure
    \/ PagingExit

\* a request that was sent is answered or fails, and the statement after the
\* loop is reached: the thread that runs the call is not suspended for ever
SpecPaging == InitPaging /\ [][NextPaging]_vars /\ WF_vars(NextPaging)

-----------------------------------------------------------------------------
(* Two get_historical_data calls on the one DataManager of the application   *)
(* (app.py:42), run by two request threads (run.py:22-27, threaded = True)   *)
(* for the same (symbol, timeframe), so for the same file.  Each call reads  *)
(* the file into its local df, fetches what df misses, and writes its df     *)
(* back; the threads may be switched between these steps.  `calls` maps a    *)
(* thread to [pc, start_date, end_date, df, fetched (the candles its         *)
(* requests brought)].                                                       *)

Threads == {1, 2}

\* the start_date / end_date of the concurrent requests: the open times of bars
ConcurrentRanges ==
    {r \in RemoteTimestamps \X RemoteTimestamps : r[1] <= r[2]}

\* data_manager.py:39-44: df is the content of the file, or empty without file
CallLoad(th) ==
    /\ mode = "concurrent"
    /\ calls[th].pc = "start"
    /\ calls' = [calls EXCEPT ![th].pc = "loaded", ![th].df = cache]
    /\ UNCHANGED <<mode, prior, metrics, portfolio_vars, engine_vars, call_vars,
                   cache, fetches, returned_df, remote, paging>>

\* data_manager.py:47-55: the missing ranges of df are fetched and concatenated
CallFetch(th) ==
    /\ mode = "concurrent"
    /\ calls[th].pc = "loaded"
    /\ LET c              == calls[th]
           missing_ranges == FindMissingRanges(c.df, c.start_date, c.end_date, timeframe)
           unfailing      == FetchRanges(missing_ranges, c.df, 0)
       IN  \E fail \in {f \in {0, 1} : f <= Len(unfailing.requests)} :
               LET out == IF fail = 0 THEN unfailing
                          ELSE FetchRanges(missing_ranges, c.df, fail)
               IN  /\ calls' = [calls EXCEPT
                                   ![th].pc = "fetched",
                                   ![th].df = out.df,
                                   ![th].fetched =
                                       [t \in UNION {out.requests[k].rows :
                                                         k \in DOMAIN out.requests}
                                           |-> RemoteCandle(t)]]
                   /\ fetches' = out.requests
    /\ UNCHANGED <<mode, prior, metrics, portfolio_vars, engine_vars, call_vars,
                   cache, returned_df, remote, paging>>

\* data_manager.py:58-63: a df with rows is written over the file; the rows in
\* range are returned
CallPersist(th) ==
    /\ mode = "concurrent"
    /\ calls[th].pc = "fetched"
    /\ cache' = IF DOMAIN calls[th].df # {} THEN calls[th].df ELSE cache
    /\ returned_df' = InRange(calls[th].df, calls[th].start_date, calls[th].end_date)
    /\ calls' = [calls EXCEPT ![th].pc = "returned"]
    /\ UNCHANGED <<mode, prior, metrics, portfolio_vars, engine_vars, call_vars,
                   fetches, remote, paging>>

\* two requests have reached get_historical_data; the file holds any of the
\* exchange's bars
InitConcurrent ==
    /\ mode = "concurrent"
    /\ PortfolioInit(R(1000), R(0), <<"BTCUSDC">>)
    /\ strategy = NoStrategy
    /\ timeframe = BarWidth
    /\ signals_df = <<>>
    /\ ticks = <<>>
    /\ tick_i = 0
    /\ to_process = <<>>
    /\ results = <<>>
    /\ pc = "idle"
    /\ ncalls = 0
    /\ last_trade = <<>>
    /\ ret = <<>>
    /\ err = "none"
    /\ prior = <<>>
    /\ metrics = <<>>
    /\ \E held \in SUBSET RemoteTimestamps : cache = [t \in held |-> RemoteCandle(t)]
    /\ fetches = <<>>
    /\ returned_df = <<>>
    /\ remote = [honours_end |-> TRUE]
    /\ paging = <<>>
    /\ \E r \in [Threads -> ConcurrentRanges] :
           calls = [th \in Threads |->
                       [pc |-> "start", start_date |-> r[th][1], end_date |-> r[th][2],
                        df |-> <<>>, fetched |-> <<>>]]

NextConcurrent ==
    \E th \in Threads :
        \/ CallLoad(th)
        \/ CallFetch(th)
        \/ CallPersist(th)

SpecConcurrent == InitConcurrent /\ [][NextConcurrent]_vars

-----------------------------------------------------------------------------
(* Properties *)

\* a step that is an execute_trade call: the order of the call is last_trade'[1]
IsCall == ncalls' = ncalls + 1

\* the notional of buy order o when the cash is c
Notional(o, c) ==
    IF "portion" \in DOMAIN o.params THEN RMul(o.params.portion, c)
    ELSE IF "usdc_value" \in DOMAIN o.params THEN o.params.usdc_value
    ELSE R(0)

\* the three rejection rules of a buy of notional n with cash c at rate r
FloorOrFunds(c, n, r) ==
    \/ RLe(c, R(5))
    \/ RLt(c, RMul(n, RAdd(R(1), r)))
    \/ RLe(n, R(5))

\* the quantity of symbol s held in pos (0 when s is no key of it)
Qty(pos, s) == IF s \in DOMAIN pos THEN pos[s] ELSE R(0)

\* the positions of every symbol but s are the same keys with the same quantities
OthersUnchanged(s) ==
    \A x \in Symbols \ {s} :
        /\ x \in DOMAIN positions' <=> x \in DOMAIN positions
        /\ x \in DOMAIN positions => positions'[x] = positions[x]

\* trades' is trades with exactly one trade appended
OneTradeAppended ==
    /\ Len(trades') = Len(trades) + 1
    /\ SubSeq(trades', 1, Len(trades)) = trades
    /\ trades'[Len(trades')].executed

\* C1: in every reachable state, after any sequence of execute_trade calls,
\* cash >= 0 and every position quantity >= 0.
C1_CashAndPositionsNonNegative ==
    /\ RLe(R(0), cash)
    /\ \A s \in DOMAIN positions : RLe(R(0), positions[s])

\* C1 witness: after a buy that spent all the cash and a sale that sold a whole
\* position, both at their boundary value 0
C1_Witness ==
    /\ \E i, j \in 1 .. Len(trades) : trades[i].type = "buy" /\ trades[j].type = "sell"
    /\ \E s \in DOMAIN positions : positions[s] = R(0)
    /\ ncalls = MaxCalls
    /\ ret # <<>> /\ ret[1].executed /\ ret[1].type = "buy" /\ cash = R(0)

\* C2: in every reachable state the cumulative commission equals the sum of the
\* commission fields of the trades in the trade log.
C2_CommissionIsSumOfTrades ==
    total_commission = RSumSeq([i \in 1 .. Len(trades) |-> trades[i].commission])

\* C2 witness: a run that executed a buy and a sale, both with a commission
C2_Witness ==
    /\ mode = "engine"
    /\ Len(trades) >= 2
    /\ \A i \in 1 .. Len(trades) : RLt(R(0), trades[i].commission)
    /\ \E i, j \in 1 .. Len(trades) : trades[i].type = "buy" /\ trades[j].type = "sell"

\* C3: a buy_market order is rejected when cash <= 5, or cash < notional *
\* (1 + commission_rate), or notional <= 5; the rejected call changes none of
\* cash, positions, cumulative commission and trade log, and returns the trade
\* with executed = FALSE.
C3_RejectedBuyChangesNothing ==
    [][(IsCall /\ last_trade'[1].type = "buy_market"
          /\ FloorOrFunds(cash, Notional(last_trade'[1], cash), commission_rate))
       => /\ cash' = cash
          /\ positions' = positions
          /\ total_commission' = total_commission
          /\ trades' = trades
          /\ err' = "none"
          /\ Len(ret') = 1
          /\ ret'[1].executed = FALSE]_vars

\* C3 witness: cash 1000, portion 0.001 (notional 1): the buy was rejected, the
\* cash is still 1000 and the trade log is empty
C3_Witness ==
    /\ market_data.attached
    /\ last_trade # <<>>
    /\ last_trade[1].type = "buy_market"
    /\ last_trade[1].params = [portion |-> <<1, 1000>>]
    /\ HasCandle(market_data, last_trade[1].symbol, last_trade[1].timestamp)
    /\ ret # <<>> /\ ~ret[1].executed
    /\ cash = R(1000)
    /\ trades = <<>>

\* C4: an accepted buy_market order of notional n at close p for symbol s
\* decreases cash by n * (1 + commission_rate), increases the position of s by
\* n / p, increases the cumulative commission by n * commission_rate, appends
\* exactly one trade and leaves every other symbol's position unchanged.
C4_AcceptedBuyEffect ==
    [][(IsCall /\ last_trade'[1].type = "buy_market"
          /\ ~FloorOrFunds(cash, Notional(last_trade'[1], cash), commission_rate)
          /\ HasCandle(market_data, last_trade'[1].symbol, last_trade'[1].timestamp))
       => LET o == last_trade'[1]
              n == Notional(o, cash)
              p == market_data.data[o.symbol][o.timestamp]
          IN  /\ cash' = RSub(cash, RMul(n, RAdd(R(1), commission_rate)))
              /\ o.symbol \in DOMAIN positions'
              /\ positions'[o.symbol] = RAdd(Qty(positions, o.symbol), RDiv(n, p))
              /\ total_commission' = RAdd(total_commission, RMul(n, commission_rate))
              /\ OneTradeAppended
              /\ OthersUnchanged(o.symbol)
              /\ err' = "none"
              /\ ret' = <<trades'[Len(trades')]>>]_vars

\* C4 witness: a buy was executed at a non-zero commission rate while another
\* symbol was held
C4_Witness ==
    /\ ret # <<>> /\ ret[1].executed /\ ret[1].type = "buy"
    /\ commission_rate # R(0)
    /\ \E s \in DOMAIN positions : s # ret[1].symbol /\ RLt(R(0), positions[s])

\* C5: an accepted sell_market order of portion q for symbol s sells q * held(s)
\* at close p: cash increases by (q * held(s) * p) / (1 + commission_rate), the
\* position of s decreases by q * held(s), the cumulative commission grows by
\* the trade's commission, exactly one trade is appended and every other
\* symbol's position is unchanged.
C5_AcceptedSellEffect ==
    [][(IsCall /\ last_trade'[1].type = "sell_market"
          /\ HasCandle(market_data, last_trade'[1].symbol, last_trade'[1].timestamp)
          /\ "portion" \in DOMAIN last_trade'[1].params
          /\ LET o == last_trade'[1]
                 held == Qty(positions, o.symbol)
                 sold == RMul(held, o.params.portion)
             IN  /\ ~RLt(held, sold)
                 /\ ~RLe(RMul(sold, market_data.data[o.symbol][o.timestamp]), R(5)))
       => LET o == last_trade'[1]
              held == Qty(positions, o.symbol)
              sold == RMul(held, o.params.portion)
              usd  == RMul(sold, market_data.data[o.symbol][o.timestamp])
          IN  /\ cash' = RAdd(cash, RDiv(usd, RAdd(R(1), commission_rate)))
              /\ positions'[o.symbol] = RSub(held, sold)
              /\ total_commission' = RAdd(total_commission, RMul(usd, commission_rate))
              /\ RLe(total_commission, total_commission')
              /\ OneTradeAppended
              /\ trades'[Len(trades')].commission = RMul(usd, commission_rate)
              /\ OthersUnchanged(o.symbol)
              /\ err' = "none"
              /\ ret' = <<trades'[Len(trades')]>>]_vars

\* C5 witness: half of a position was sold at a non-zero commission rate while
\* another symbol was held
C5_Witness ==
    /\ ret # <<>> /\ ret[1].executed /\ ret[1].type = "sell"
    /\ last_trade[1].params = [portion |-> <<1, 2>>]
    /\ commission_rate # R(0)
    /\ RLt(R(0), positions[ret[1].symbol])
    /\ \E s \in DOMAIN positions : s # ret[1].symbol /\ RLt(R(0), positions[s])

\* C6: execute_trade with an order of kind buy_limit, sell_limit or oco raises
\* NotImplementedError (it does not return), and the failing call changes none
\* of cash, positions, cumulative commission and trade log.
C6_LimitKindsRaise ==
    [][(IsCall /\ last_trade'[1].type \in {"buy_limit", "sell_limit", "oco"})
       => /\ err' = "NotImplementedError"
          /\ ret' = <<>>
          /\ cash' = cash
          /\ positions' = positions
          /\ total_commission' = total_commission
          /\ trades' = trades]_vars

\* C6 witness: an oco order raised on a portfolio that holds a position
C6_Witness ==
    /\ last_trade # <<>>
    /\ last_trade[1].type = "oco"
    /\ err = "NotImplementedError"
    /\ Len(trades) >= 1
    /\ \E s \in DOMAIN positions : RLt(R(0), positions[s])

\* C7: for every buy_market or sell_market order whose symbol has no candle at
\* the order's timestamp, execute_trade raises; it never returns the order as a
\* soft rejection, whatever the notional, the portion or the cash.
C7_MissingCandleAlwaysRaises ==
    [][(IsCall /\ last_trade'[1].type \in {"buy_market", "sell_market"}
          /\ market_data.attached
          /\ ~HasCandle(market_data, last_trade'[1].symbol, last_trade'[1].timestamp))
       => (err' # "none" /\ ret' = <<>>)]_vars

\* The cash and the quantities that the executed trades of `log` dated before
\* timestamp T leave, starting from acc
RECURSIVE ReplayBefore(_, _, _)
ReplayBefore(log, T, acc) ==
    IF log = <<>> THEN acc
    ELSE LET t    == Head(log)
             q    == RDiv(t.usd_value, t.price)
             gain == RDiv(t.usd_value, RAdd(R(1), commission_rate))
             cost == RMul(t.usd_value, RAdd(R(1), commission_rate))
             nxt  == IF ~(t.timestamp < T) THEN acc
                     ELSE IF t.type = "buy"
                     THEN [cash |-> RSub(acc.cash, cost),
                           qty  |-> [acc.qty EXCEPT ![t.symbol] = RAdd(@, q)]]
                     ELSE [cash |-> RAdd(acc.cash, gain),
                           qty  |-> [acc.qty EXCEPT ![t.symbol] = RSub(@, q)]]
         IN  ReplayBefore(Tail(log), T, nxt)

\* cash + sum of quantity * close(s, T) for the portfolio left by the trades
\* of all ticks before T
ValueLeftByEarlierTicks(T) ==
    LET st   == ReplayBefore(trades, T, [cash |-> initial_capital,
                                         qty |-> [s \in Symbols |-> R(0)]])
        held == {s \in Symbols : st.qty[s] # R(0)}
    IN  RAdd(st.cash, RSum([s \in held |-> RMul(st.qty[s], market_data.data[s][T])], held))

\* C8: at every tick the equity point is recorded before any signal of the tick
\* is executed: total_value equals cash + sum of quantity * close(s, tick) of the
\* cash and positions left by all earlier ticks, so a trade executed at tick T
\* first affects the equity point of the tick after T.
C8_EquityPointBeforeSignals ==
    /\ \A k \in 1 .. Len(graph_data.total_value) :
           graph_data.total_value[k] = ValueLeftByEarlierTicks(graph_data.timestamp[k])
    /\ \A i \in 1 .. Len(trades) :
           \E k \in 1 .. Len(graph_data.total_value) :
               graph_data.timestamp[k] = trades[i].timestamp
    /\ pc = "signals" =>
           /\ Len(graph_data.total_value) = tick_i
           /\ graph_data.timestamp[tick_i] = ticks[tick_i]

\* C8 witness: a trade executed at one tick left the equity point of that tick
\* at the initial capital and changed the equity point of the next tick
C8_Witness ==
    \E k \in 1 .. Len(graph_data.total_value) - 1 :
        /\ \E i \in 1 .. Len(trades) : trades[i].timestamp = graph_data.timestamp[k]
        /\ \A i \in 1 .. Len(trades) : trades[i].timestamp >= graph_data.timestamp[k]
        /\ graph_data.total_value[k] = initial_capital
        /\ graph_data.total_value[k + 1] # initial_capital

\* every timestamp of every series given to the run
AllTimestamps == UNION {DOMAIN market_data.data[s] : s \in DOMAIN market_data.data}

\* C9: for a run that completes, the equity curve has exactly one point per tick
\* of the regular grid that starts at the earliest timestamp of any series, ends
\* at the latest one and has step = timeframe; the timestamps are strictly
\* increasing and the three lists have the same length.
C9_OnePointPerGridTick ==
    pc = "done" =>
        LET T == graph_data.timestamp IN
        /\ Len(graph_data.total_value) = Len(T)
        /\ Len(graph_data.benchmark) = Len(T)
        /\ Len(T) >= 1
        /\ \A u \in AllTimestamps : T[1] <= u /\ u <= T[Len(T)]
        /\ T[1] \in AllTimestamps
        /\ T[Len(T)] \in AllTimestamps
        /\ \A k \in 1 .. Len(T) - 1 : T[k + 1] = T[k] + timeframe
        /\ \A k \in 1 .. Len(T) - 1 : T[k] < T[k + 1]

\* C9 witness: a completed run over two symbols and at least three ticks
C9_Witness ==
    /\ pc = "done"
    /\ Cardinality(DOMAIN market_data.data) = 2
    /\ Len(graph_data.timestamp) >= 3
    /\ Len(trades) >= 1

\* C10: run_backtest on an engine with no configured strategy fails with
\* ValueError before anything else happens: no market data is attached, no
\* benchmark allocation is computed, no equity point is recorded and no order
\* is executed.
C10_NoStrategyFailsFirst ==
    [][(pc = "idle" /\ strategy.name = "None" /\ pc' # "idle")
       => /\ pc' = "failed"
          /\ err' = "ValueError"
          /\ ~market_data'.attached
          /\ benchmark_positions' = <<>>
          /\ graph_data' = [timestamp |-> <<>>, total_value |-> <<>>, benchmark |-> <<>>]
          /\ ncalls' = 0
          /\ trades' = <<>>
          /\ cash' = initial_capital
          /\ results' = <<>>]_vars

\* C10 witness: a run was started on an engine without a strategy and failed
C10_Witness ==
    /\ pc = "failed"
    /\ err = "ValueError"
    /\ strategy.name = "None"

\* C11: the trade log contains exactly the accepted orders, one trade per
\* accepted order in execution order, each with executed = TRUE; a rejected
\* order adds nothing to the log, raises no error, and the signals that follow
\* it (on the same tick and on later ticks) are still processed.
C11_LogIsAcceptedOrders ==
    [][/\ \A i \in 1 .. Len(trades') : trades'[i].executed
       /\ ~IsCall => trades' = trades
       /\ (IsCall /\ err' = "none" /\ ret'[1].executed)
          => /\ OneTradeAppended
             /\ trades'[Len(trades')] = ret'[1]
             /\ ret'[1].symbol = last_trade'[1].symbol
             /\ ret'[1].timestamp = last_trade'[1].timestamp
       /\ (IsCall /\ err' # "none") => trades' = trades
       /\ (IsCall /\ err' = "none" /\ ~ret'[1].executed)
          => /\ trades' = trades
             /\ pc' # "failed"
             /\ to_process' = Tail(to_process)
             /\ to_process' # <<>> => (pc' = "signals" /\ tick_i' = tick_i)
             /\ (to_process' = <<>> /\ tick_i < Len(ticks))
                    => (pc' = "tick" /\ tick_i' = tick_i + 1)
             /\ (to_process' = <<>> /\ tick_i = Len(ticks)) => pc' = "summary"
       /\ pc' = "done" => ncalls' = Len(signals_df')]_vars

\* C11 witness: a completed run of four orders over two symbols: on one tick the
\* first symbol's order was accepted and the second symbol's order rejected,
\* and on the next tick the orders of both symbols were accepted
C11_Witness ==
    /\ pc = "done"
    /\ Len(signals_df) = 4
    /\ ncalls = 4
    /\ Len(trades) = 3
    /\ trades[1].timestamp < trades[2].timestamp
    /\ trades[2].timestamp = trades[3].timestamp
    /\ trades[1].symbol = trades[2].symbol
    /\ trades[2].symbol # trades[3].symbol

\* C12: after portfolio initialisation the benchmark quantity of every symbol s
\* equals initial_capital / (N * first close of s), where N is the number of
\* symbols whose series are supplied to the run, and no later order execution
\* or tick changes any benchmark quantity.
C12_BenchmarkEqualSplit ==
    [][/\ market_data'.attached =>
            LET N == Cardinality(DOMAIN market_data'.data) IN
            /\ DOMAIN benchmark_positions' = DOMAIN market_data'.data
            /\ \A s \in DOMAIN market_data'.data :
                   benchmark_positions'[s] =
                       RDiv(initial_capital',
                            RMul(R(N), market_data'.data[s][FirstTs(market_data'.data[s])]))
       /\ market_data.attached => benchmark_positions' = benchmark_positions]_vars

OnlySeries == market_data.data[market_data.keys[1]]

\* a finished single-symbol Buy&Hold run with commission 0 and both portions 1
FullBuyAndHoldRun ==
    /\ pc = "done"
    /\ DOMAIN market_data.data = {market_data.keys[1]}
    /\ Len(symbols) = 1
    /\ strategy = [name |-> "BuyAndHoldStrategy",
                   params |-> [portion_buy |-> R(1), portion_sell |-> R(1)]]
    /\ commission_rate = R(0)

\* what C14 says of such a run
BoughtAllSoldAll ==
    LET c0 == OnlySeries[FirstTs(OnlySeries)]
        cn == OnlySeries[LastTs(OnlySeries)]
        s  == market_data.keys[1]
    IN  /\ Len(trades) = 2
        /\ trades[1].type = "buy" /\ trades[1].timestamp = FirstTs(OnlySeries)
        /\ RDiv(trades[1].usd_value, trades[1].price) = RDiv(initial_capital, c0)
        /\ trades[2].type = "sell" /\ trades[2].timestamp = LastTs(OnlySeries)
        /\ RDiv(trades[2].usd_value, trades[2].price) = RDiv(initial_capital, c0)
        /\ positions[s] = R(0)
        /\ cash = RDiv(RMul(initial_capital, cn), c0)

SomeSymbolUnpriced(md, ts) == \E s \in DOMAIN md.data : ts \notin DOMAIN md.data[s]

\* C15: in a run over symbols whose series cover different timestamp ranges the
\* grid spans the union of the ranges, and the run aborts with a price-lookup
\* failure at the first tick for which some symbol has no candle; it never
\* skips that symbol's valuation and never returns a result.
C15_UncoveredTickAborts ==
    [][/\ (pc = "idle" /\ pc' \in {"tick", "summary"})
          => /\ ticks'[1] = StartTs(market_data')
             /\ ticks'[Len(ticks')] = EndTs(market_data')
             /\ \A s \in DOMAIN market_data'.data : \A t \in DOMAIN market_data'.data[s] :
                    \E i \in 1 .. Len(ticks') : ticks'[i] = t
       /\ (pc = "tick" /\ SomeSymbolUnpriced(market_data, ticks[tick_i]))
          => /\ pc' = "failed"
             /\ err' = "KeyError"
             /\ results' = <<>>
             /\ Len(graph_data'.benchmark) = tick_i - 1
             /\ \A i \in 1 .. tick_i - 1 : ~SomeSymbolUnpriced(market_data, ticks[i])
       /\ pc' = "done"
          => /\ results' # <<>>
             /\ \A i \in 1 .. Len(ticks') : ~SomeSymbolUnpriced(market_data', ticks'[i])]_vars

\* C15 witness: a run over two symbols, one covering the first two ticks only
\* and one the last two only, aborted at its first tick
C15_Witness ==
    /\ pc = "failed"
    /\ err = "KeyError"
    /\ Cardinality(DOMAIN market_data.data) = 2
    /\ Len(ticks) = 3
    /\ \E s, u \in DOMAIN market_data.data :
           /\ DOMAIN market_data.data[s] = {ticks[1], ticks[2]}
           /\ DOMAIN market_data.data[u] = {ticks[2], ticks[3]}
    /\ graph_data.timestamp = <<ticks[1]>>
    /\ graph_data.benchmark = <<>>
    /\ results = <<>>

\* the one series handed to generate_signals, and its closes in index order
GivenSeries == market_data.data["BTCUSDC"]
GivenCloses == [i \in 1 .. Len(Index(GivenSeries)) |-> GivenSeries[Index(GivenSeries)[i]]]

\* C16: the RSI-threshold strategy generates zero signals on a series whose
\* close price is constant, for every lookback period and every pair of
\* thresholds.
C16_FlatSeriesNoRSISignal ==
    (/\ mode = "strategy"
     /\ pc = "generated"
     /\ strategy.name = "RSIStrategy"
     /\ \A i \in 1 .. Len(GivenCloses) : GivenCloses[i] = GivenCloses[1])
        => signals_df = <<>>

\* every declared parameter of a class with its default
DeclaredDefaults(class) ==
    IF class = "RSIStrategy" THEN Parameters(class) @@ RiskParameters ELSE Parameters(class)

\* the keys of self.params that generate_signals of a class reads
KeysRead(class) ==
    CASE class = "BuyAndHoldStrategy" -> {"portion_buy", "portion_sell"}
      [] class = "DCA_strategy" -> {"daily_investment", "monthly_investment"}
      [] class = "RSIStrategy" ->
            {"rsi_period", "rsi_oversold", "rsi_overbought"} \cup RSISignalKeys

\* C17: for each of the three strategies, set_params with a parameter set that
\* does not contain every key of the declared schema succeeds and sets every
\* parameter to its declared default; with a set that contains every declared
\* key it uses the supplied values; after either call generate_signals can
\* read every parameter it needs.
C17_SetParamsDefaultsOrSupplied ==
    [][(mode = "strategy" /\ pc = "new" /\ pc' # "new")
       => LET given == last_trade'[1].params
              class == strategy.name
          IN  /\ pc' = "configured"
              /\ err' = "none"
              /\ ~(DOMAIN Parameters(class) \subseteq DOMAIN given)
                     => strategy'.params = DeclaredDefaults(class)
              /\ DOMAIN Parameters(class) \subseteq DOMAIN given
                     => strategy'.params = given
              /\ KeysRead(class) \subseteq DOMAIN strategy'.params]_vars

\* C18: for every non-empty series, including a series of exactly one bar,
\* BuyAndHold.generate_signals returns exactly one buy_market signal (portion =
\* portion_buy) at the first bar and exactly one sell_market signal (portion =
\* portion_sell) at the last bar, and no other signal.
C18_OneBuyOneSell ==
    (mode = "strategy" /\ pc = "generated" /\ strategy.name = "BuyAndHoldStrategy")
        => /\ Len(signals_df) = 2
           /\ signals_df[1] = [ts |-> FirstTs(GivenSeries),
                               signal |-> [type |-> "buy_market",
                                           params |-> [portion |-> strategy.params.portion_buy]]]
           /\ signals_df[2] = [ts |-> LastTs(GivenSeries),
                               signal |-> [type |-> "sell_market",
                                           params |-> [portion |-> strategy.params.portion_sell]]]

\* C19: for every non-empty series, the signals generated by the DCA strategy
\* end with a forced liquidation: a sell signal at the last bar of the series.
C19_DCAEndsWithSell ==
    (mode = "strategy" /\ pc = "generated" /\ strategy.name = "DCA_strategy")
        => /\ signals_df # <<>>
           /\ signals_df[Len(signals_df)].ts = LastTs(GivenSeries)
           /\ signals_df[Len(signals_df)].signal.type \in {"sell_market", "sell_limit", "sell"}

\* the grid timestamps (bar opening times) of the range [start_date, end_date]
GridTimestamps(start_date, end_date) ==
    {t \in start_date .. end_date : t % timeframe = 0}

\* the call of this step was given a range all of whose grid timestamps are cached
RangeIsCached ==
    /\ mode = "data"
    /\ last_trade' # <<>>
    /\ GridTimestamps(last_trade'[1].start_date, last_trade'[1].end_date) \subseteq DOMAIN cache

\* zero requests, the cached candles of the range returned, the file as it was
ServedFromCache ==
    /\ fetches' = <<>>
    /\ returned_df' = InRange(cache, last_trade'[1].start_date, last_trade'[1].end_date)
    /\ cache' = cache

\* C20 as stated: when the cache already holds a candle at every grid timestamp
\* of the requested range [start, end], get_historical_data issues zero remote
\* requests and returns those cached candles.
C20_AsStated == [][RangeIsCached => ServedFromCache]_vars

\* C20 amended: the same, for a range that contains at least one grid timestamp.
C20_CachedRangeNoRequest ==
    [][(/\ RangeIsCached
        /\ GridTimestamps(last_trade'[1].start_date, last_trade'[1].end_date) # {})
       => ServedFromCache]_vars

\* C20 witness: a range of three bars that starts and ends off the grid was
\* served from a file that holds more than those bars, with no request
C20_Witness ==
    /\ mode = "data"
    /\ last_trade # <<>>
    /\ last_trade[1].start_date % timeframe # 0
    /\ last_trade[1].end_date % timeframe # 0
    /\ Cardinality(DOMAIN returned_df) = 3
    /\ Cardinality(DOMAIN cache) > 3
    /\ fetches = <<>>

\* the grid timestamps of the range of this step's call that the file lacks
MissingInRange ==
    GridTimestamps(last_trade'[1].start_date, last_trade'[1].end_date) \ DOMAIN cache

\* the range of this step's call lacks exactly one bar, and the file holds a
\* bar of the range before it and a bar of the range after it
OneInteriorBarMissing ==
    /\ mode = "data"
    /\ last_trade' # <<>>
    /\ Cardinality(MissingInRange) = 1
    /\ \E t \in MissingInRange :
           \E a, b \in GridTimestamps(last_trade'[1].start_date, last_trade'[1].end_date) :
               a < t /\ t < b /\ a \in DOMAIN cache /\ b \in DOMAIN cache

\* C21: when the cache covers the requested range except for exactly one
\* interior bar, get_historical_data issues exactly one remote request, and
\* that request's start and end enclose the missing bar and no other bar.
C21_OneBarGapOneRequest ==
    [][OneInteriorBarMissing
       => /\ Len(fetches') = 1
          /\ GridTimestamps(fetches'[1].startTime, fetches'[1].endTime) = MissingInRange]_vars

\* every request of this step's call was answered
EveryRequestSucceeds == \A i \in 1 .. Len(fetches') : fetches'[i].ok

\* C22: if the remote source holds a candle for every grid timestamp in
\* [start, end] and every request succeeds, then for any prior cache content
\* the rows returned by get_historical_data contain a candle at every grid
\* timestamp in [start, end], and so does the persisted cache.  (Rows are keyed
\* by timestamp here, so their ascending order is not part of the formula.)
C22_ReturnedRangeIsCovered ==
    [][(/\ mode = "data"
        /\ last_trade' # <<>>
        /\ GridTimestamps(last_trade'[1].start_date, last_trade'[1].end_date)
               \subseteq RemoteTimestamps
        /\ EveryRequestSucceeds)
       => /\ GridTimestamps(last_trade'[1].start_date, last_trade'[1].end_date)
                 \subseteq DOMAIN returned_df'
          /\ GridTimestamps(last_trade'[1].start_date, last_trade'[1].end_date)
                 \subseteq DOMAIN cache']_vars

\* neither the file nor the exchange has a candle in the range of this step's call
NoDataAnywhere ==
    /\ mode = "data"
    /\ last_trade' # <<>>
    /\ last_trade'[1].start_date <= last_trade'[1].end_date
    /\ \A t \in last_trade'[1].start_date .. last_trade'[1].end_date :
           t \notin DOMAIN cache /\ t \notin RemoteTimestamps

\* C23: when neither the cache nor the remote source has any candle in the
\* requested range, get_historical_data fails with a DataUnavailable error;
\* it does not return normally.
C23_NoDataIsAnError == [][NoDataAnywhere => err' = "DataUnavailable"]_vars

\* a request of this step's call was answered with a RequestException
SomeRequestFailed ==
    /\ mode = "data"
    /\ last_trade' # <<>>
    /\ \E i \in 1 .. Len(fetches') : ~fetches'[i].ok

\* every missing sub-range of this step's call that is not empty was requested
EverySubRangeAttempted ==
    LET ranges == FindMissingRanges(cache, last_trade'[1].start_date,
                                    last_trade'[1].end_date, timeframe)
    IN  \A k \in 1 .. Len(ranges) :
            ranges[k][1] < ranges[k][2]
                => \E i \in 1 .. Len(fetches') : fetches'[i].startTime = ranges[k][1]

\* C24: when a remote request fails during the fetch of one missing sub-range,
\* the other missing sub-ranges are still fetched and the failure is reported
\* to the caller of get_historical_data: the call does not return normally.
C24_FetchFailureIsReported ==
    [][SomeRequestFailed => (EverySubRangeAttempted /\ err' # "none")]_vars

\* the metrics of a finished run were computed, and its equity curve is empty
\* or spans zero elapsed calendar days
MetricsOfShortRun ==
    /\ mode = "engine"
    /\ pc = "done"
    /\ metrics # <<>>
    /\ \/ results[1].graph_data.timestamp = <<>>
       \/ Days(results[1].graph_data.timestamp) = 0

\* C25: when the equity curve spans zero elapsed calendar days, or is empty,
\* computing the return metrics does not fail with a division by zero or any
\* other error: total_return_pct is still returned.
C25_ShortRunHasReturnMetrics ==
    MetricsOfShortRun
        => /\ ReturnMetrics(results[1])[1] = "ok"
           /\ "return_metrics" \in DOMAIN metrics[1]
           /\ "total_return_pct" \in DOMAIN metrics[1].return_metrics

\* C26: an invocation either completes every step and returns a full
\* successful result, or fails: whenever the run or the metric computation
\* raises, the caller receives a failure, never a success response in which
\* the metrics are missing or empty.
C26_SuccessIsComplete ==
    (mode = "engine" /\ Response # <<>>)
        => IF err # "none" \/ (pc = "done" /\ CalculateAllMetrics(results[1])[1] = "raise")
           THEN "error" \in DOMAIN Response[1]
           ELSE /\ "success" \in DOMAIN Response[1]
                /\ Response[1].metrics # <<>>

\* this step is a sell_market call of a priced order whose target quantity
\* exceeds the held quantity or whose notional is at or below the floor
SellBelowFloorOrHeld ==
    /\ IsCall
    /\ last_trade'[1].type = "sell_market"
    /\ "portion" \in DOMAIN last_trade'[1].params
    /\ HasCandle(market_data, last_trade'[1].symbol, last_trade'[1].timestamp)
    /\ LET held   == Qty(positions, last_trade'[1].symbol)
           target == RMul(last_trade'[1].params.portion, held)
           price  == Close(market_data, last_trade'[1].symbol, last_trade'[1].timestamp)
       IN  RLt(held, target) \/ RLe(RMul(target, price), R(5))

\* C27: a sell_market order is rejected when the held quantity is less than
\* the target quantity or when the notional (portion x held quantity x close)
\* is <= 5; the rejected sell leaves cash, the positions mapping (the same
\* symbols with the same quantities), cumulative commission and trade log
\* unchanged.
C27_RejectedSellChangesNothing ==
    [][SellBelowFloorOrHeld
       => /\ err' = "none"
          /\ Len(ret') = 1
          /\ ret'[1].executed = FALSE
          /\ cash' = cash
          /\ positions' = positions
          /\ total_commission' = total_commission
          /\ trades' = trades]_vars

\* the place of row i of the signal table when the rows are ordered by
\* timestamp and, within a timestamp, by their place in the table
SubmissionRank(i) ==
    1 + Cardinality({j \in 1 .. Len(signals_df) :
                        \/ signals_df[j].ts < signals_df[i].ts
                        \/ (signals_df[j].ts = signals_df[i].ts /\ j < i)})

\* the row of the signal table that is due as the k-th submission
DueRow(k) == signals_df[CHOOSE i \in 1 .. Len(signals_df) : SubmissionRank(i) = k]

\* the place of a symbol in the series mapping
KeyPlace(s) == CHOOSE i \in 1 .. Len(market_data.keys) : market_data.keys[i] = s

\* C28: in a run whose series timestamps all lie on the simulation grid, every
\* generated signal is submitted to the portfolio exactly once, at the tick
\* equal to its timestamp; submissions occur in non-decreasing timestamp order,
\* and signals of different symbols on the same tick are submitted in the
\* signal table's row order, which is the order of the symbols in the series
\* mapping.  (The k-th call of a run submits the k-th row in that order, and a
\* run that returns has made as many calls as the table has rows.)
C28_SignalsSubmittedOnceInOrder ==
    [][mode = "engine"
       => /\ IsCall
                => /\ ncalls < Len(signals_df)
                   /\ last_trade'[1] =
                          [type |-> DueRow(ncalls + 1).signal.type,
                           symbol |-> DueRow(ncalls + 1).symbol,
                           timestamp |-> DueRow(ncalls + 1).ts,
                           params |-> DueRow(ncalls + 1).signal.params]
                   /\ last_trade'[1].timestamp = ticks[tick_i]
                   /\ ncalls > 0
                        => /\ last_trade[1].timestamp <= last_trade'[1].timestamp
                           /\ last_trade[1].timestamp = last_trade'[1].timestamp
                                => KeyPlace(last_trade[1].symbol)
                                       < KeyPlace(last_trade'[1].symbol)
          /\ pc' = "done" => ncalls' = Len(signals_df')]_vars

\* C28 witness: a finished run over two series, ETHUSDC first in the mapping,
\* whose table lists a later row of one symbol before an earlier row of the
\* other; all four rows were submitted, the last one for BTCUSDC
C28_Witness ==
    /\ mode = "engine"
    /\ pc = "done"
    /\ market_data.keys = <<"ETHUSDC", "BTCUSDC">>
    /\ Len(signals_df) = 4
    /\ signals_df[2].ts > signals_df[3].ts
    /\ ncalls = 4
    /\ last_trade[1].symbol = "BTCUSDC"

\* the kinds of signal the portfolio dispatches on
SignalKinds == {"buy_market", "sell_market", "buy_limit", "sell_limit", "oco"}

\* C29: every signal emitted by any of the three strategies (BuyAndHold, DCA,
\* RSI-threshold) has a kind that belongs to {buy_market, sell_market,
\* buy_limit, sell_limit, oco}.
C29_SignalKindsAreOrderKinds ==
    (mode = "strategy" /\ pc = "generated")
        => \A i \in 1 .. Len(signals_df) : signals_df[i].signal.type \in SignalKinds

\* this step is a set_strategy call that raised on an engine without a strategy
SetStrategyFailed ==
    /\ mode = "engine"
    /\ pc = "idle" /\ pc' = "idle"
    /\ strategy = NoStrategy
    /\ err = "none" /\ err' # "none"

\* this step is a run_backtest call that follows such a set_strategy call
RunAfterFailedSetStrategy ==
    /\ mode = "engine"
    /\ pc = "idle" /\ pc' # "idle"
    /\ err # "none"

\* C30: set_strategy with an identifier that is not one of the three strategy
\* classes fails, and after any failed set_strategy call on an engine that had
\* no strategy the engine still has no configured strategy, so a following
\* run_backtest fails on the 'no strategy configured' guard, with no market
\* data attached, rather than dispatching to a wrong object.
C30_FailedSetStrategyLeavesNone ==
    [][/\ \A class \in StrategyIdentifiers \ AllStrategyClasses :
              SetStrategyOutcome(class, <<>>).err # "none"
       /\ SetStrategyFailed => strategy' = NoStrategy
       /\ RunAfterFailedSetStrategy
              => /\ pc' = "failed"
                 /\ err' = "ValueError"
                 /\ ~market_data'.attached]_vars

\* the timestamps of the first n bars of the given series
WarmUpWindow(n) ==
    {Index(GivenSeries)[i] : i \in 1 .. (IF n < Len(Index(GivenSeries))
                                         THEN n ELSE Len(Index(GivenSeries)))}

\* C31: the RSI-threshold strategy never emits a signal at a bar inside the
\* indicator's warm-up window: for a lookback period n, no signal has a
\* timestamp among the first n bars of the series, and every returned row
\* carries a non-null signal.
C31_NoRSISignalInWarmUp ==
    (mode = "strategy" /\ pc = "generated" /\ strategy.name = "RSIStrategy")
        => \A i \in 1 .. Len(signals_df) :
               /\ signals_df[i].ts \notin WarmUpWindow(strategy.params.rsi_period)
               /\ signals_df[i].ts \in DOMAIN GivenSeries
               /\ signals_df[i].signal # NoSignal
               /\ signals_df[i].signal.type \in {"buy", "sell"}

\* C31 witness: period 2 with thresholds that every RSI value meets, on three
\* bars: the one signal is at the third bar
C31_Witness ==
    /\ mode = "strategy"
    /\ pc = "generated"
    /\ strategy.name = "RSIStrategy"
    /\ strategy.params.rsi_period = 2
    /\ Len(Index(GivenSeries)) = 3
    /\ Len(signals_df) = 1
    /\ signals_df[1].ts = Index(GivenSeries)[3]

\* the signal table holds a buy_market of the given notional at timestamp ts
BuysAt(ts, notional) ==
    \E i \in 1 .. Len(signals_df) :
        /\ signals_df[i].ts = ts
        /\ signals_df[i].signal = [type |-> "buy_market",
                                   params |-> [usdc_value |-> notional]]

\* C32: the DCA strategy emits a buy of notional daily_investment at every bar
\* that falls on a day boundary (00:00) and a buy of notional
\* monthly_investment at every bar that falls on a month-start boundary (day
\* 1, 00:00), including when such a bar is the first bar of the series and
\* when a bar is both a day boundary and a month start.
C32_DCABuysOnEveryBoundary ==
    (mode = "strategy" /\ pc = "generated" /\ strategy.name = "DCA_strategy")
        => \A ts \in DOMAIN GivenSeries :
               /\ HourOf(ts) = 0 => BuysAt(ts, strategy.params.daily_investment)
               /\ (HourOf(ts) = 0 /\ IsFirstOfMonth(ts))
                      => BuysAt(ts, strategy.params.monthly_investment)

\* the timestamps of the klines the requests of this step's call were answered with
FetchedTimestamps == UNION {fetches'[i].rows : i \in 1 .. Len(fetches')}

\* C33: when a newly fetched candle has the same timestamp as a candle already
\* in the cache, the merged cache keeps the newly fetched candle (last write
\* wins); after every fetch the persisted table has exactly one row per
\* timestamp, the cached and the fetched ones.  (Rows are keyed by timestamp
\* here, so one row per timestamp in ascending order holds by construction.)
C33_LastWriteWins ==
    [][(mode = "data" /\ last_trade' # <<>>)
       => /\ DOMAIN cache' = DOMAIN cache \cup FetchedTimestamps
          /\ \A t \in FetchedTimestamps : cache'[t] = RemoteCandle(t)]_vars

\* the rows of an answer are in ascending order of open time
Ascending(rows) == \A i, j \in DOMAIN rows : i < j => rows[i] < rows[j]

\* a step of the paging loop that appended an answered page
PageAppended == Len(paging'.all_data) > Len(paging.all_data)

\* the next request starts one unit after the last row of the page, which is
\* after the start of the request that brought the page
CursorAdvances ==
    PageAppended =>
        /\ paging'.start_ms = paging'.all_data[Len(paging'.all_data)] + 1
        /\ paging'.start_ms > paging.start_ms
        /\ paging'.pc = "loop"

\* every request but the last was answered with rows; the loop has ended only
\* on a failed request, on an empty page, or with the cursor at the end; and
\* when the pages come in ascending order no request covers a row that an
\* earlier request brought
StopsAtFirstEnd ==
    LET reqs == paging.requests
        n    == Len(reqs)
    IN  /\ \A k \in 1 .. n - 1 : reqs[k].ok /\ reqs[k].rows # <<>>
        /\ \A k \in 1 .. n - 1 : reqs[k].startTime < reqs[k + 1].startTime
        /\ paging.pc = "loop" => \A k \in 1 .. n : reqs[k].ok /\ reqs[k].rows # <<>>
        /\ paging.pc = "returned" =>
               \/ n > 0 /\ ~reqs[n].ok
               \/ n > 0 /\ reqs[n].ok /\ reqs[n].rows = <<>>
               \/ ~(paging.start_ms < paging.end_ms)
        /\ (\A k \in 1 .. n : Ascending(reqs[k].rows)) =>
               /\ \A k \in 1 .. n : \A j \in 1 .. k - 1 : \A i \in DOMAIN reqs[j].rows :
                      reqs[j].rows[i] < reqs[k].startTime
               /\ \A i, j \in DOMAIN paging.all_data :
                      i # j => paging.all_data[i] # paging.all_data[j]

BothReturned == mode = "concurrent" /\ \A th \in Threads : calls[th].pc = "returned"

\* C35: two get_historical_data calls for the same (symbol, timeframe) that run
\* concurrently lose no data: once both have returned, the file holds every
\* candle that either call fetched, whatever the interleaving of their load,
\* fetch and persist steps.
C35_ConcurrentCallsLoseNothing ==
    BothReturned =>
        \A th \in Threads : \A t \in DOMAIN calls[th].fetched : t \in DOMAIN cache

\* cash + quantity x price for the symbol of an order, at price
ValueAt(c, pos, symbol, price) == RAdd(c, RMul(Held(pos, symbol), price))

\* C36: value conservation: for every executed trade, buy or sell, the total
\* value of the portfolio at the execution price (cash + quantity x price)
\* drops by exactly the commission recorded for that trade.
C36_ValueDropsByCommission ==
    [][(IsCall /\ err' = "none" /\ ret'[1].executed) =>
           LET symbol == last_trade'[1].symbol
               price  == ret'[1].price
               before == ValueAt(cash, positions, symbol, price)
               after  == ValueAt(cash', positions', symbol, price)
               want   == RSub(before, ret'[1].commission)
           IN  RLe(after, want) /\ RLe(want, after)]_vars

\* cash + sum of quantity x close(s, T) over the symbols held, T being the
\* last tick of the grid; a symbol held in quantity 0 adds nothing
ValueAtLastTick ==
    LET T     == ticks[Len(ticks)]
        open  == {s \in DOMAIN positions : positions[s] # R(0)}
        worth == [s \in open |-> RMul(positions[s], Close(market_data, s, T))]
    IN  RAdd(cash, RSum(worth, open))

\* C37: the final_value of the portfolio summary of a completed run is cash +
\* sum of quantity x close(s, T) at T = the last tick of the simulation grid
\* (the latest timestamp of all the series), after all the signals of the run
\* were executed, for any number of symbols in any order.
C37_FinalValueAtLastTick ==
    (mode = "engine" /\ pc = "done") =>
        /\ ticks[Len(ticks)] = EndTs(market_data)
        /\ \A s \in DOMAIN positions :
               positions[s] # R(0) => HasCandle(market_data, s, ticks[Len(ticks)])
        /\ results[1].portfolio_summary.final_value = ValueAtLastTick

\* a run over two symbols has completed with a position still open in the
\* second key of the mapping, whose close moved between the first and the last
\* tick
C37_Witness ==
    /\ mode = "engine"
    /\ pc = "done"
    /\ Len(market_data.keys) = 2
    /\ Len(ticks) > 1
    /\ LET s == market_data.keys[2] IN
           /\ s \in DOMAIN positions
           /\ RLt(R(0), positions[s])
           /\ Close(market_data, s, ticks[1]) # Close(market_data, s, ticks[Len(ticks)])
    /\ results[1].portfolio_summary.final_value # cash

\* the call just made was given a buy_market order by a portion p with
\* p x (1 + r) > 1
BuyByPortionAboveFunds ==
    /\ IsCall
    /\ last_trade'[1].type = "buy_market"
    /\ "portion" \in DOMAIN last_trade'[1].params
    /\ RLt(R(1), RMul(last_trade'[1].params.portion, RAdd(R(1), commission_rate)))

\* the engine runs Buy&Hold with portion_buy = 1.0 under a commission rate > 0
BuyAndHoldAllIn ==
    /\ mode = "engine"
    /\ strategy.name = "BuyAndHoldStrategy"
    /\ strategy.params # <<>>
    /\ strategy.params.portion_buy = R(1)
    /\ RLt(R(0), commission_rate)

\* C38: a buy_market order by portion p under commission rate r is rejected
\* whenever p x (1 + r) > 1: the order is returned not executed and nothing
\* changes; so a Buy&Hold run with portion_buy = 1.0 and r > 0 executes no
\* trade and ends with cash = initial capital.
C38_BuyAboveFundsRejected ==
    /\ [][BuyByPortionAboveFunds =>
              /\ err' = "none"
              /\ ~ret'[1].executed
              /\ cash' = cash
              /\ trades' = trades
              /\ total_commission' = total_commission
              /\ \A s \in DOMAIN positions' : Held(positions', s) = Held(positions, s)]_vars
    /\ [](BuyAndHoldAllIn => trades = <<>> /\ cash = initial_capital)

\* a Buy&Hold run with portion_buy = 1.0 and a commission has completed, its
\* buy and its sell both submitted
C38_Witness ==
    /\ BuyAndHoldAllIn
    /\ pc = "done"
    /\ ncalls >= 2
    /\ RLt(R(TradeFloor), initial_capital)
    /\ results[1].portfolio_summary.cash = initial_capital
    /\ results[1].trades_history = <<>>

\* C39: execute_trade never silently ignores an order: whatever the kind of
\* the order, the call executes it (the trade is logged), or rejects it by a
\* floor or insufficiency rule of a market buy or sell, or raises; an order of
\* none of the five declared kinds does not return normally as a non-executed
\* trade.
C39_NoOrderSilentlyIgnored ==
    [][IsCall =>
           \/ err' # "none"
           \/ /\ ret'[1].executed
              /\ trades' = Append(trades, ret'[1])
           \/ /\ ~ret'[1].executed
              /\ last_trade'[1].type \in {"buy_market", "sell_market"}]_vars

\* the results of the run with an equity curve of no point
WithEmptyCurve(res) ==
    [res EXCEPT !.graph_data = [timestamp |-> <<>>, total_value |-> <<>>,
                                benchmark |-> <<>>]]

\* C40: the metric dictionaries have the same key set whatever the run
\* contains: trade_metrics has the keys total_trades, win_rate_pct and
\* avg_trade_return_pct whether the trade history is empty or not, risk_metrics
\* has the same keys for an empty and a non-empty equity curve, and
\* get_summary_report succeeds for a run with zero executed trades.
C40_MetricKeysAreStable ==
    (mode = "engine" /\ pc = "done" /\ metrics # <<>> /\ metrics[1] # <<>>) =>
        /\ DOMAIN metrics[1].trade_metrics
               = {"total_trades", "win_rate_pct", "avg_trade_return_pct"}
        /\ RiskMetricsKeys(WithEmptyCurve(results[1])) = RiskMetricsKeys(results[1])
        /\ results[1].trades_history = <<>> => GetSummaryReport(results[1])[1] = "ok"

=============================================================================
